---- MODULE Spec2Model ----
(***************************************************************************)
(* A model of the lookup compiler of fea-rs (fea-rs/src/compile/lookups.rs) *)
(* AllLookups is the state machine: the lookup being built, the pending    *)
(* name, the GPOS and GSUB vectors and the name map.  split_lookups is a   *)
(* pure function, checked under SpecSplit.  PosSubBuilder, which makes the *)
(* script and feature lists of a table, AllLookups::build, which feeds it, *)
(* and ClassDefBuilder2 (lookups/helpers.rs) have specifications of their  *)
(* own.  So have the lexer (src/lexer.rs), under SpecLex, and the tree     *)
(* sink with its tree builder (fea-rs/src/token_tree.rs), under SpecSink   *)
(* and SpecRange.                                                          *)
(***************************************************************************)
EXTENDS Integers, Sequences, FiniteSets, TLC

VARIABLES
    current,        \* AllLookups.current: Option<SomeLookup>
    current_name,   \* AllLookups.current_name: Option<SmolStr>
    gpos,           \* AllLookups.gpos: Vec<PositionLookup>
    gsub,           \* AllLookups.gsub: Vec<SubstitutionLookup>
    named,          \* AllLookups.named: HashMap<SmolStr, LookupId>
    op,             \* the call that produced this state
    ret,            \* what that call returned
    panic,          \* "none", or the message of the panic that aborted the run
    started_kind,   \* the Kind passed to the start_lookup that made `current`
    started_since_name, \* a name is pending and start_lookup was called since
    ctx_pushed,     \* per table: the last push of a contextual lookup, until the
                    \* next lookup is started for the table
    next_serial,    \* identity of the next lookup object to be constructed
    finished,       \* serials of the lookups handed to push, in push order
    split_in,       \* split_lookups: the slice it is called with
    split_out,      \* split_lookups: its result (or the panic)
    psb,            \* a PosSubBuilder: lookups, scripts, features
    psb_added,      \* the (tag, lookups, idx) of every add call made on psb
    psb_last,       \* the arguments of the last add call on psb, with its idx
    psb_out,        \* what build_raw made of psb, once it is built
    features,       \* the features map given to AllLookups::build
    required_features, \* the required_features set given to it
    build_out,      \* what AllLookups::build returned, with the add calls it made
    cdb,            \* a ClassDefBuilder2: classes, glyphs, use_class_0
    cdb_out,        \* what ClassDefBuilder2::build returned, once it is built
    lex_input,      \* the input given to Lexer::new, as bytes
    lexer,          \* the Lexer: input, pos, after_backslash
    lex_tokens,     \* the tokens next_token returned, each with where it starts
    lex_hung,       \* a call of next_token was made that never returns
    sink,           \* an AstSink: text, text_pos, builder, glyph_map, errors,
                    \* cur_node_contains_error
    sink_out,       \* what AstSink::finish returned (or the panic)
    sink_diag,      \* per open node, innermost last: [diag |-> an error was
                    \* reported while it was the innermost open node]
    sink_op,        \* the last call on the sink
    sink_items      \* per open node, innermost last: the items pushed at its
                    \* level since its start_node, in push order

vars == <<current, current_name, gpos, gsub, named, op, ret, panic,
          started_kind, started_since_name, ctx_pushed, next_serial, finished,
          split_in, split_out, psb, psb_added, psb_last, psb_out,
          features, required_features, build_out, cdb, cdb_out,
          lex_input, lexer, lex_tokens, lex_hung,
          sink, sink_out, sink_diag, sink_op, sink_items>>

lookupVars == <<current, current_name, gpos, gsub, named, op, ret, panic,
                started_kind, started_since_name, ctx_pushed, next_serial, finished>>

splitVars == <<split_in, split_out>>

builderVars == <<psb, psb_added, psb_last, psb_out>>

buildVars == <<features, required_features, build_out>>

\* what the calls on AllLookups leave alone
classVars == <<cdb, cdb_out>>

lexVars == <<lex_input, lexer, lex_tokens, lex_hung>>

sinkVars == <<sink, sink_out, sink_diag, sink_op, sink_items>>

textVars == <<lexVars, sinkVars>>

nonLookupVars == <<splitVars, builderVars, buildVars, classVars, textVars>>

----------------------------------------------------------------------------
(* Bounds of the model *)

MaxSize == 3         \* lookups + contextual rules + subtable breaks of a run
MaxSeqSize == 3      \* the same, for the runs of the sequencing calls alone
MaxSplitLen == 3     \* length of the slice given to split_lookups
MaxRuleSize == 2     \* the same as MaxSize, for the runs of the rule entrypoints
MaxTableLookups == 1 \* lookups started in a run of rules and subtable breaks
MaxAdds == 3         \* add calls on one PosSubBuilder
MaxBuildLookups == 2 \* lookups of a run that ends in AllLookups::build
MaxFeatSize == 4     \* features, plus the lookups bound to them, given to build
MaxGlyph == 4        \* glyph ids 1..MaxGlyph in the classes of a ClassDefBuilder2
MaxClassLen == 2     \* glyphs of such a class
MaxIdx == 1          \* small lookup indices 0..MaxIdx in such a slice
MaxPieces == 4       \* pieces (a byte or a keyword) of a lexer input
MaxEofCalls == 2     \* calls of next_token from the one that reaches the end
MaxTextLen == 5      \* bytes of a glyph-name-or-range text
MaxMapSize == 2      \* names of a glyph map
MaxSinkLen == 2      \* bytes of the text of a sink that is driven call by call
MaxNodes == 2        \* start_node calls on such a sink
MaxErrors == 1       \* error calls on such a sink

----------------------------------------------------------------------------
(* Option<T> *)

None == <<>>
Some(x) == <<x>>
IsSome(o) == o # <<>>
IsNone(o) == o = <<>>
Unwrap(o) == o[1]

(* LookupId *)

Gpos(i) == [t |-> "Gpos", idx |-> i]
Gsub(i) == [t |-> "Gsub", idx |-> i]
Empty == [t |-> "Empty"]

IsGpos(id) == id.t = "Gpos"
IsGsub(id) == id.t = "Gsub"

(* Kind: the lookup kinds SomeLookup::new accepts *)

GposKinds == {"GposType1", "GposType2", "GposType3", "GposType4",
              "GposType5", "GposType6", "GposType7", "GposType8"}

GsubKinds == {"GsubType1", "GsubType2", "GsubType3", "GsubType4",
              "GsubType5", "GsubType6", "GsubType8"}

Kinds == GposKinds \cup GsubKinds

(* The kinds the driver of the main specification starts lookups with: a   *)
(* plain and both contextual kinds of each table.                          *)
DriverKinds == {"GposType1", "GposType7", "GposType8",
                "GsubType1", "GsubType5", "GsubType6"}

is_gpos_rule(kind) == kind \in GposKinds

(* the LookupFlagInfo the driver passes: MARK_ATTACHMENT bits and a filter set *)
FlagInfos == {[flags |-> 16, mark_filter_set |-> Some(1)]}

Names == {"a", "b"}
Glyphs == {1, 2, 3}

----------------------------------------------------------------------------
(* LookupBuilder<T> *)

\* T::default() of a subtable builder: no rules
DefaultSubtable == <<>>

LookupBuilder_new(flags, mark_set) ==
    [flags |-> flags, mark_set |-> mark_set, subtables |-> <<DefaultSubtable>>]

LookupBuilder_new_with_lookups(flags, mark_set, subtables) ==
    [flags |-> flags, mark_set |-> mark_set, subtables |-> subtables]

\* the new subtable put in front of the others
force_subtable_break_front(lb) ==
    [lb EXCEPT !.subtables = <<DefaultSubtable>> \o @]

force_subtable_break(lb) ==
    [lb EXCEPT !.subtables = Append(@, DefaultSubtable)]

\* a PositionLookup / SubstitutionLookup value: the enum variant around a builder
Lookup(variant, lb, serial) ==
    [variant |-> variant, flags |-> lb.flags, mark_set |-> lb.mark_set,
     subtables |-> lb.subtables, serial |-> serial]

----------------------------------------------------------------------------
(* Subtable builders.  A subtable of a plain lookup is a map from the      *)
(* target glyph to what the rule stores for it; a subtable of a contextual *)
(* lookup is the list of its rules.                                        *)

\* HashMap entry(k).or_insert(v): an existing key keeps its value
MapInsert_or_insert(m, k, v) == IF k \in DOMAIN m THEN m ELSE [x \in (DOMAIN m) \cup {k} |-> IF x = k THEN v ELSE m[x]]

\* HashMap::insert / BTreeMap::insert
MapInsert(m, k, v) == [x \in (DOMAIN m) \cup {k} |-> IF x = k THEN v ELSE m[x]]

SingleSubBuilder_insert(sub, target, replacement) == MapInsert(sub, target, replacement)

AlternateSubBuilder_insert(sub, target, alts) == MapInsert(sub, target, alts)

is_empty(sub) == DOMAIN sub = {}

\* one rule of a contextual subtable; context is a list of [glyph, lookups]
ContextRule(backtrack, context, lookahead) ==
    [backtrack |-> backtrack, context |-> context, lookahead |-> lookahead]

ContextBuilder_add(sub, backtrack, input, lookahead) ==
    Append(sub, ContextRule(backtrack, input, lookahead))

is_chain_rule(rule) == rule.backtrack # <<>> \/ rule.lookahead # <<>>

adjust_if_gsub_skip(id, value) == id

\* LookupId::adjust_if_gsub
adjust_if_gsub(id, value) ==
    IF IsGsub(id) THEN Gsub(id.idx + value) ELSE id

\* ContextBuilder::bump_all_lookup_ids: every nested id of every rule
bump_all_lookup_ids(sub, value) ==
    [r \in DOMAIN sub |->
        [sub[r] EXCEPT !.context =
            [p \in DOMAIN @ |->
                [@[p] EXCEPT !.lookups =
                    [q \in DOMAIN @ |-> adjust_if_gsub(@[q], value)]]]]]

\* the nested lookup ids a contextual subtable holds, rule by rule
RECURSIVE Flatten(_)
Flatten(ss) == IF ss = <<>> THEN <<>> ELSE Head(ss) \o Flatten(Tail(ss))

iter_lookups(sub) ==
    Flatten([r \in DOMAIN sub |->
        Flatten([p \in DOMAIN sub[r].context |-> sub[r].context[p].lookups])])

----------------------------------------------------------------------------
(* ContextualLookupBuilder<T> *)

ContextualLookupBuilder_new(flags, mark_set, serial) ==
    [flags |-> flags, mark_set |-> mark_set, subtables |-> <<DefaultSubtable>>,
     anon_lookups |-> <<>>, root_id |-> Empty, serial |-> serial]

\* LookupId::to_raw of a non-Empty id
to_raw(id) == id.idx

\* the id the next anonymous lookup of the builder gets: one past the root,
\* counting the anonymous lookups that exist
next_anon_id(b) ==
    [b.root_id EXCEPT !.idx = to_raw(b.root_id) + Len(b.anon_lookups) + 1]

\* an inline rule at a context site becomes an anonymous single lookup
add_anon_lookup(b, glyph, value, serial) ==
    [b EXCEPT !.anon_lookups = Append(@,
        Lookup("Single",
               LookupBuilder_new_with_lookups(b.flags, b.mark_set,
                    <<SingleSubBuilder_insert(DefaultSubtable, glyph, value)>>),
               serial))]

\* ChainOrNot: Chain when a rule has backtrack or lookahead, else Context
into_lookups(b) ==
    LET chain == \E s \in DOMAIN b.subtables :
                    \E r \in DOMAIN b.subtables[s] : is_chain_rule(b.subtables[s][r])
    IN [lookup |-> [shape |-> IF chain THEN "Chain" ELSE "Context",
                    lb |-> LookupBuilder_new_with_lookups(b.flags, b.mark_set, b.subtables)],
        anon_lookups |-> b.anon_lookups]

----------------------------------------------------------------------------
(* SomeLookup *)

GsubLookup(l) == [some |-> "GsubLookup", lookup |-> l]
GposLookup(l) == [some |-> "GposLookup", lookup |-> l]
GposContextual(b) == [some |-> "GposContextual", lookup |-> b]
GsubContextual(b) == [some |-> "GsubContextual", lookup |-> b]

IsContextual(sl) == sl.some \in {"GposContextual", "GsubContextual"}

PositionVariant(kind) ==
    CASE kind = "GposType1" -> "Single"
      [] kind = "GposType2" -> "Pair"
      [] kind = "GposType3" -> "Cursive"
      [] kind = "GposType4" -> "MarkToBase"
      [] kind = "GposType5" -> "MarkToLig"
      [] kind = "GposType6" -> "MarkToMark"

SubstitutionVariant(kind) ==
    CASE kind = "GsubType1" -> "Single"
      [] kind = "GsubType2" -> "Multiple"
      [] kind = "GsubType3" -> "Alternate"
      [] kind = "GsubType4" -> "Ligature"
      [] kind = "GsubType5" -> "Contextual"
      [] kind = "GsubType8" -> "Reverse"

SomeLookup_new(kind, flags, filter, serial) ==
    IF kind \in {"GposType7", "GposType8"}
    THEN GposContextual(ContextualLookupBuilder_new(flags, filter, serial))
    ELSE IF kind \in {"GsubType5", "GsubType6"}
    THEN GsubContextual(ContextualLookupBuilder_new(flags, filter, serial))
    ELSE IF is_gpos_rule(kind)
    THEN GposLookup(Lookup(PositionVariant(kind), LookupBuilder_new(flags, filter), serial))
    ELSE GsubLookup(Lookup(SubstitutionVariant(kind), LookupBuilder_new(flags, filter), serial))

SomeLookup_kind(sl) ==
    CASE sl.some = "GsubContextual" -> "GsubType6"
      [] sl.some = "GposContextual" -> "GposType8"
      [] sl.some = "GsubLookup" ->
            (CASE sl.lookup.variant = "Single" -> "GsubType1"
               [] sl.lookup.variant = "Multiple" -> "GsubType2"
               [] sl.lookup.variant = "Alternate" -> "GsubType3"
               [] sl.lookup.variant = "Ligature" -> "GsubType4"
               [] sl.lookup.variant = "Reverse" -> "GsubType8")
      [] sl.some = "GposLookup" ->
            (CASE sl.lookup.variant = "Single" -> "GposType1"
               [] sl.lookup.variant = "Pair" -> "GposType2"
               [] sl.lookup.variant = "Cursive" -> "GposType3"
               [] sl.lookup.variant = "MarkToBase" -> "GposType4"
               [] sl.lookup.variant = "MarkToLig" -> "GposType5"
               [] sl.lookup.variant = "MarkToMark" -> "GposType6"
               [] sl.lookup.variant = "Contextual" -> "GposType7"
               [] sl.lookup.variant = "ChainedContextual" -> "GposType8")

----------------------------------------------------------------------------
(* AllLookups *)

push_front(sl) ==
    CASE sl.some = "GsubLookup" ->
            [ok |-> TRUE, gpos |-> gpos, gsub |-> <<sl.lookup>> \o gsub,
             id |-> Gsub(0), pushed |-> <<sl.lookup.serial>>]
      [] sl.some = "GposLookup" ->
            [ok |-> TRUE, gpos |-> <<sl.lookup>> \o gpos, gsub |-> gsub,
             id |-> Gpos(0), pushed |-> <<sl.lookup.serial>>]
      [] sl.some = "GposContextual" ->
            LET parts == into_lookups(sl.lookup)
                root == Lookup("ChainedContextual", parts.lookup.lb, sl.lookup.serial)
            IN [ok |-> TRUE, gpos |-> <<root>> \o parts.anon_lookups \o gpos, gsub |-> gsub,
                id |-> Gpos(0),
                pushed |-> <<root.serial>> \o [i \in DOMAIN parts.anon_lookups |->
                                                    parts.anon_lookups[i].serial]]
      [] sl.some = "GsubContextual" ->
            LET parts == into_lookups(sl.lookup)
                root == Lookup("ChainedContextual", parts.lookup.lb, sl.lookup.serial)
            IN [ok |-> TRUE, gpos |-> gpos, gsub |-> <<root>> \o parts.anon_lookups \o gsub,
                id |-> Gsub(0),
                pushed |-> <<root.serial>> \o [i \in DOMAIN parts.anon_lookups |->
                                                    parts.anon_lookups[i].serial]]

push_anon_first(sl) ==
    CASE sl.some = "GsubLookup" ->
            [ok |-> TRUE, gpos |-> gpos, gsub |-> Append(gsub, sl.lookup),
             id |-> Gsub(Len(gsub)), pushed |-> <<sl.lookup.serial>>]
      [] sl.some = "GposLookup" ->
            [ok |-> TRUE, gpos |-> Append(gpos, sl.lookup), gsub |-> gsub,
             id |-> Gpos(Len(gpos)), pushed |-> <<sl.lookup.serial>>]
      [] sl.some = "GposContextual" ->
            LET parts == into_lookups(sl.lookup)
                root == Lookup("ChainedContextual", parts.lookup.lb, sl.lookup.serial)
            IN [ok |-> TRUE, gpos |-> gpos \o parts.anon_lookups \o <<root>>, gsub |-> gsub,
                id |-> Gpos(Len(gpos) + Len(parts.anon_lookups)),
                pushed |-> [i \in DOMAIN parts.anon_lookups |->
                                parts.anon_lookups[i].serial] \o <<root.serial>>]
      [] sl.some = "GsubContextual" ->
            LET parts == into_lookups(sl.lookup)
                root == Lookup(IF parts.lookup.shape = "Context"
                               THEN "Contextual" ELSE "ChainedContextual",
                               parts.lookup.lb, sl.lookup.serial)
            IN [ok |-> TRUE, gpos |-> gpos, gsub |-> gsub \o parts.anon_lookups \o <<root>>,
                id |-> Gsub(Len(gsub) + Len(parts.anon_lookups)),
                pushed |-> [i \in DOMAIN parts.anon_lookups |->
                                parts.anon_lookups[i].serial] \o <<root.serial>>]

push_gpos_plain(sl) ==
    CASE sl.some = "GsubLookup" ->
            [ok |-> TRUE, gpos |-> gpos, gsub |-> Append(gsub, sl.lookup),
             id |-> Gsub(Len(gsub)), pushed |-> <<sl.lookup.serial>>]
      [] sl.some = "GposLookup" ->
            [ok |-> TRUE, gpos |-> Append(gpos, sl.lookup), gsub |-> gsub,
             id |-> Gpos(Len(gpos)), pushed |-> <<sl.lookup.serial>>]
      [] sl.some = "GposContextual" ->
            LET id == Gpos(Len(gpos))
                parts == into_lookups(sl.lookup)
                root == Lookup(IF parts.lookup.shape = "Context"
                               THEN "Contextual" ELSE "ChainedContextual",
                               parts.lookup.lb, sl.lookup.serial)
            IN [ok |-> id = sl.lookup.root_id,
                gpos |-> Append(gpos, root) \o parts.anon_lookups, gsub |-> gsub,
                id |-> id,
                pushed |-> <<root.serial>> \o [i \in DOMAIN parts.anon_lookups |->
                                                    parts.anon_lookups[i].serial]]
      [] sl.some = "GsubContextual" ->
            LET id == Gsub(Len(gsub))
                parts == into_lookups(sl.lookup)
                root == Lookup(IF parts.lookup.shape = "Context"
                               THEN "Contextual" ELSE "ChainedContextual",
                               parts.lookup.lb, sl.lookup.serial)
            IN [ok |-> id = sl.lookup.root_id,
                gpos |-> gpos, gsub |-> Append(gsub, root) \o parts.anon_lookups,
                id |-> id,
                pushed |-> <<root.serial>> \o [i \in DOMAIN parts.anon_lookups |->
                                                    parts.anon_lookups[i].serial]]

\* AllLookups::push.  ok is the sanity assertion id == lookup.root_id; gpos,
\* gsub are the vectors after the call, id what it returns and pushed the
\* serials of the lookups appended, in the order they were appended.
push(sl) ==
    CASE sl.some = "GsubLookup" ->
            [ok |-> TRUE, gpos |-> gpos, gsub |-> Append(gsub, sl.lookup),
             id |-> Gsub(Len(gsub) + 1 - 1), pushed |-> <<sl.lookup.serial>>]
      [] sl.some = "GposLookup" ->
            [ok |-> TRUE, gpos |-> Append(gpos, sl.lookup), gsub |-> gsub,
             id |-> Gpos(Len(gpos) + 1 - 1), pushed |-> <<sl.lookup.serial>>]
      [] sl.some = "GposContextual" ->
            LET id == Gpos(Len(gpos))
                parts == into_lookups(sl.lookup)
                \* both ChainOrNot shapes become PositionLookup::ChainedContextual
                root == Lookup("ChainedContextual", parts.lookup.lb, sl.lookup.serial)
            IN [ok |-> id = sl.lookup.root_id,
                gpos |-> Append(gpos, root) \o parts.anon_lookups, gsub |-> gsub,
                id |-> id,
                pushed |-> <<root.serial>> \o [i \in DOMAIN parts.anon_lookups |->
                                                    parts.anon_lookups[i].serial]]
      [] sl.some = "GsubContextual" ->
            LET id == Gsub(Len(gsub))
                parts == into_lookups(sl.lookup)
                root == Lookup(IF parts.lookup.shape = "Context"
                               THEN "Contextual" ELSE "ChainedContextual",
                               parts.lookup.lb, sl.lookup.serial)
            IN [ok |-> id = sl.lookup.root_id,
                gpos |-> gpos, gsub |-> Append(gsub, root) \o parts.anon_lookups,
                id |-> id,
                pushed |-> <<root.serial>> \o [i \in DOMAIN parts.anon_lookups |->
                                                    parts.anon_lookups[i].serial]]

get_named(name) == IF name \in DOMAIN named THEN Some(named[name]) ELSE None

has_current == IsSome(current)

needs_new_lookup(kind) ==
    IsNone(current) \/ SomeLookup_kind(Unwrap(current)) # kind

----------------------------------------------------------------------------
(* What the bounds count *)

RECURSIVE SumLen(_)
SumLen(ss) == IF ss = <<>> THEN 0 ELSE Cardinality(DOMAIN Head(ss)) + SumLen(Tail(ss))

RECURSIVE SumRules(_)
SumRules(ls) ==
    IF ls = <<>> THEN 0 ELSE SumLen(Head(ls).subtables) + SumRules(Tail(ls))

RECURSIVE SumSubtables(_)
SumSubtables(ls) ==
    IF ls = <<>> THEN 0 ELSE Len(Head(ls).subtables) + SumSubtables(Tail(ls))

\* the lookups of the current builder: itself and its anonymous lookups
CurrentLookups ==
    IF IsNone(current) THEN <<>>
    ELSE IF IsContextual(Unwrap(current))
         THEN <<Unwrap(current).lookup>> \o Unwrap(current).lookup.anon_lookups
         ELSE <<Unwrap(current).lookup>>

EveryLookup == gpos \o gsub \o CurrentLookups

\* the lookups the aalt pass has prepended: in no finish order
AaltLookups == SelectSeq(gsub, LAMBDA l : \A i \in DOMAIN finished : finished[i] # l.serial)

TotalLookups == Len(EveryLookup) - Len(AaltLookups)
TotalBreaks == SumSubtables(EveryLookup) - Len(EveryLookup)
\* rules in the rule lists of contextual lookups (built or being built)
TotalRules ==
    SumRules(SelectSeq(EveryLookup,
        LAMBDA l : \/ "root_id" \in DOMAIN l
                   \/ l.variant \in {"Contextual", "ChainedContextual"}))

\* what the calls of a run have built so far, the aalt lookups aside
Size == TotalLookups + TotalRules + TotalBreaks

----------------------------------------------------------------------------
(* The state after AllLookups::default() *)

TableOf(sl) == IF sl.some \in {"GposLookup", "GposContextual"} THEN "Gpos" ELSE "Gsub"

NoCtxPushed == [table \in {"Gpos", "Gsub"} |-> None]

\* ctx_pushed once sl is pushed: a contextual lookup leaves the index of its
\* root, the number of its anonymous lookups and its serial
NotePush(sl) ==
    IF IsContextual(sl)
    THEN [ctx_pushed EXCEPT ![TableOf(sl)] =
            Some([r |-> Len(IF TableOf(sl) = "Gpos" THEN gpos ELSE gsub),
                  m |-> Len(sl.lookup.anon_lookups),
                  serial |-> sl.lookup.serial])]
    ELSE ctx_pushed

InitLookups ==
    /\ current = None
    /\ current_name = None
    /\ gpos = <<>>
    /\ gsub = <<>>
    /\ named = <<>>
    /\ op = "default"
    /\ ret = None
    /\ panic = "none"
    /\ started_kind = None
    /\ started_since_name = FALSE
    /\ ctx_pushed = NoCtxPushed
    /\ next_serial = 1
    /\ finished = <<>>

\* a panic unwinds the compiler: its state is dropped
Abort(msg, name) ==
    /\ panic' = msg
    /\ op' = name
    /\ ret' = None
    /\ current' = None
    /\ current_name' = None
    /\ gpos' = <<>>
    /\ gsub' = <<>>
    /\ named' = <<>>
    /\ started_kind' = None
    /\ started_since_name' = FALSE
    /\ ctx_pushed' = NoCtxPushed
    /\ next_serial' = 1
    /\ finished' = <<>>

NoPush == [ok |-> TRUE, gpos |-> gpos, gsub |-> gsub, id |-> Empty, pushed |-> <<>>]

RootAssert == "assertion failed: id == lookup.root_id"
Mismatch == "lookup mismatch"

\* panic!("lookup mismatch : '{}'", self.kind())
MismatchOf(kind) == "lookup mismatch : '" \o kind \o "'"

start_named(name) ==
    /\ current_name' = Some(name)
    /\ started_since_name' = FALSE
    /\ op' = "start_named"
    /\ ret' = None
    /\ UNCHANGED <<current, gpos, gsub, named, panic, started_kind,
                   ctx_pushed, next_serial, finished>>

start_lookup(kind, flags) ==
    LET r == IF IsSome(current) THEN push(Unwrap(current)) ELSE NoPush
    IN IF ~r.ok THEN Abort(RootAssert, "start_lookup")
       ELSE LET finished_id == IF IsSome(current) THEN Some(r.id) ELSE None
                new_one == SomeLookup_new(kind, flags.flags,
                                          flags.mark_filter_set, next_serial)
                new_id == IF is_gpos_rule(kind) THEN Gpos(Len(r.gpos))
                                                ELSE Gsub(Len(r.gsub))
            IN /\ gpos' = r.gpos
               /\ gsub' = r.gsub
               /\ finished' = finished \o r.pushed
               /\ current' = Some(IF IsContextual(new_one)
                                  THEN [new_one EXCEPT !.lookup.root_id = new_id]
                                  ELSE new_one)
               /\ started_kind' = Some(kind)
               /\ started_since_name' = IsSome(current_name)
               /\ ctx_pushed' =
                    [(IF IsSome(current) THEN NotePush(Unwrap(current)) ELSE ctx_pushed)
                        EXCEPT ![IF is_gpos_rule(kind) THEN "Gpos" ELSE "Gsub"] = None]
               /\ next_serial' = next_serial + 1
               /\ op' = "start_lookup"
               /\ ret' = finished_id
               /\ UNCHANGED <<current_name, named, panic>>

\* finish_current that leaves the pending name where it is
finish_current_keep_name ==
    IF IsSome(current)
    THEN LET r == push(Unwrap(current))
         IN IF ~r.ok THEN Abort(RootAssert, "finish_current")
            ELSE /\ gpos' = r.gpos
                 /\ gsub' = r.gsub
                 /\ finished' = finished \o r.pushed
                 /\ current' = None
                 /\ started_kind' = None
                 /\ started_since_name' = FALSE
                 /\ ctx_pushed' = NotePush(Unwrap(current))
                 /\ current_name' = current_name
                 /\ IF IsSome(current_name)
                    THEN /\ named' = MapInsert(named, Unwrap(current_name), r.id)
                         /\ ret' = Some(<<r.id, current_name>>)
                    ELSE /\ named' = named
                         /\ ret' = Some(<<r.id, None>>)
                 /\ op' = "finish_current"
                 /\ UNCHANGED <<panic, next_serial>>
    ELSE /\ IF IsSome(current_name)
            THEN /\ named' = MapInsert(named, Unwrap(current_name), Empty)
                 /\ ret' = Some(<<Empty, current_name>>)
            ELSE /\ named' = named
                 /\ ret' = None
         /\ current_name' = current_name
         /\ started_since_name' = FALSE
         /\ op' = "finish_current"
         /\ UNCHANGED <<current, gpos, gsub, panic, started_kind,
                        ctx_pushed, next_serial, finished>>

finish_current ==
    IF IsSome(current)
    THEN LET r == push(Unwrap(current))
         IN IF ~r.ok THEN Abort(RootAssert, "finish_current")
            ELSE /\ gpos' = r.gpos
                 /\ gsub' = r.gsub
                 /\ finished' = finished \o r.pushed
                 /\ current' = None
                 /\ started_kind' = None
                 /\ started_since_name' = FALSE
                 /\ ctx_pushed' = NotePush(Unwrap(current))
                 /\ current_name' = None
                 /\ IF IsSome(current_name)
                    THEN /\ named' = MapInsert(named, Unwrap(current_name), r.id)
                         /\ ret' = Some(<<r.id, current_name>>)
                    ELSE /\ named' = named
                         /\ ret' = Some(<<r.id, None>>)
                 /\ op' = "finish_current"
                 /\ UNCHANGED <<panic, next_serial>>
    ELSE /\ IF IsSome(current_name)
            THEN /\ named' = MapInsert(named, Unwrap(current_name), Empty)
                 /\ ret' = Some(<<Empty, current_name>>)
            ELSE /\ named' = named
                 /\ ret' = None
         /\ current_name' = None
         /\ started_since_name' = FALSE
         /\ op' = "finish_current"
         /\ UNCHANGED <<current, gpos, gsub, panic, started_kind,
                        ctx_pushed, next_serial, finished>>

add_subtable_break ==
    /\ IF IsSome(current)
       THEN /\ current' = Some([Unwrap(current) EXCEPT
                                    !.lookup = force_subtable_break(@)])
            /\ ret' = TRUE
       ELSE /\ current' = current
            /\ ret' = FALSE
    /\ op' = "add_subtable_break"
    /\ UNCHANGED <<current_name, gpos, gsub, named, panic, started_kind,
                   started_since_name, ctx_pushed, next_serial, finished>>

\* SomeLookup::add_contextual_rule, a method of the current lookup
add_contextual_rule(backtrack, input, lookahead) ==
    /\ IsSome(current)
    /\ IF IsContextual(Unwrap(current))
       THEN /\ LET last == Len(Unwrap(current).lookup.subtables)
               IN current' = Some([Unwrap(current) EXCEPT
                        !.lookup.subtables[last] =
                            ContextBuilder_add(@, backtrack, input, lookahead)])
            /\ op' = "add_contextual_rule"
            /\ ret' = None
            /\ UNCHANGED <<current_name, gpos, gsub, named, panic, started_kind,
                           started_since_name, ctx_pushed, next_serial, finished>>
       ELSE Abort(MismatchOf(SomeLookup_kind(Unwrap(current))), "add_contextual_rule")

as_gsub_contextual(sl) == IF sl.some = "GsubContextual" THEN Some(sl.lookup) ELSE None

as_gpos_contextual(sl) == IF sl.some = "GposContextual" THEN Some(sl.lookup) ELSE None

\* an inline rule at a context site of the current contextual lookup: the
\* builder reached through as_gsub_contextual / as_gpos_contextual gets an
\* anonymous lookup and hands back its id
add_anon(table, glyph, value) ==
    /\ IsSome(current)
    /\ LET b == IF table = "Gsub" THEN as_gsub_contextual(Unwrap(current))
                                  ELSE as_gpos_contextual(Unwrap(current))
           name == IF table = "Gsub" THEN "as_gsub_contextual" ELSE "as_gpos_contextual"
       IN IF IsNone(b) THEN Abort(Mismatch, name)
          ELSE /\ current' = Some([Unwrap(current) EXCEPT
                        !.lookup = add_anon_lookup(Unwrap(b), glyph, value, next_serial)])
               /\ next_serial' = next_serial + 1
               /\ op' = name
               /\ ret' = next_anon_id(Unwrap(b))
               /\ UNCHANGED <<current_name, gpos, gsub, named, panic, started_kind,
                              started_since_name, ctx_pushed, finished>>

\* the entrypoints that insert a rule into the last subtable of a plain lookup
RuleEntrypoints ==
    {"add_gpos_type_1", "add_gpos_type_2_pair", "add_gpos_type_2_class",
     "add_gpos_type_3", "with_gpos_type_4", "with_gpos_type_5", "with_gpos_type_6",
     "add_gsub_type_1", "add_gsub_type_2", "add_gsub_type_3", "add_gsub_type_4",
     "add_gsub_type_8"}

\* the pattern an entrypoint matches self against
Expects(name, sl) ==
    CASE name = "add_gpos_type_1" -> sl.some = "GposLookup" /\ sl.lookup.variant = "Single"
      [] name = "add_gpos_type_2_pair" -> sl.some = "GposLookup" /\ sl.lookup.variant = "Pair"
      [] name = "add_gpos_type_2_class" -> sl.some = "GposLookup" /\ sl.lookup.variant = "Pair"
      [] name = "add_gpos_type_3" -> sl.some = "GposLookup" /\ sl.lookup.variant = "Cursive"
      [] name = "with_gpos_type_4" -> sl.some = "GposLookup" /\ sl.lookup.variant = "MarkToBase"
      [] name = "with_gpos_type_5" -> sl.some = "GposLookup" /\ sl.lookup.variant = "MarkToLig"
      [] name = "with_gpos_type_6" -> sl.some = "GposLookup" /\ sl.lookup.variant = "MarkToMark"
      [] name = "add_contextual_rule" -> IsContextual(sl)
      [] name = "add_gsub_type_1" -> sl.some = "GsubLookup" /\ sl.lookup.variant = "Single"
      [] name = "add_gsub_type_2" -> sl.some = "GsubLookup" /\ sl.lookup.variant = "Multiple"
      [] name = "add_gsub_type_3" -> sl.some = "GsubLookup" /\ sl.lookup.variant = "Alternate"
      [] name = "add_gsub_type_4" -> sl.some = "GsubLookup" /\ sl.lookup.variant = "Ligature"
      [] name = "add_gsub_type_8" -> sl.some = "GsubLookup" /\ sl.lookup.variant = "Reverse"
      [] name = "as_gsub_contextual" -> sl.some = "GsubContextual"
      [] name = "as_gpos_contextual" -> sl.some = "GposContextual"

\* what a subtable builder of a plain lookup does with a rule: it is stored
\* under its target
SubtableBuilder_insert(sub, target, value) == MapInsert(sub, target, value)

\* an entrypoint that inserts the rule into the first subtable
add_rule_first(name, target, value) ==
    /\ IsSome(current)
    /\ current' = Some([Unwrap(current) EXCEPT
            !.lookup.subtables[1] = SubtableBuilder_insert(@, target, value)])
    /\ op' = name
    /\ ret' = None
    /\ UNCHANGED <<current_name, gpos, gsub, named, panic, started_kind,
                   started_since_name, ctx_pushed, next_serial, finished>>

\* the else branch of an entrypoint: all panic but add_gsub_type_8, which has
\* no else branch
PanicsOnMismatch(name) == name # "add_gsub_type_8"

\* add_gpos_type_1 .. add_gsub_type_8 and with_gpos_type_4/5/6 (whose closure
\* inserts the rule), as methods of the current lookup
add_rule(name, target, value) ==
    /\ IsSome(current)
    /\ IF Expects(name, Unwrap(current))
       THEN /\ LET last == Len(Unwrap(current).lookup.subtables)
               IN current' = Some([Unwrap(current) EXCEPT
                        !.lookup.subtables[last] = SubtableBuilder_insert(@, target, value)])
            /\ op' = name
            /\ ret' = None
            /\ UNCHANGED <<current_name, gpos, gsub, named, panic, started_kind,
                           started_since_name, ctx_pushed, next_serial, finished>>
       ELSE IF PanicsOnMismatch(name)
       THEN Abort(Mismatch, name)
       ELSE /\ op' = name
            /\ ret' = None
            /\ UNCHANGED <<current, current_name, gpos, gsub, named, panic,
                           started_kind, started_since_name, ctx_pushed,
                           next_serial, finished>>

----------------------------------------------------------------------------
(* insert_aalt_lookups *)

\* the loop over all_alts: one alternate goes to the single builder, any
\* other number of alternates to the alternate builder
RECURSIVE aalt_partition(_, _, _)
aalt_partition(all_alts, single, alt) ==
    IF DOMAIN all_alts = {} THEN [single |-> single, alt |-> alt]
    ELSE LET target == CHOOSE t \in DOMAIN all_alts : TRUE
             alts == all_alts[target]
             rest == [t \in DOMAIN all_alts \ {target} |-> all_alts[t]]
         IN IF Len(alts) = 1
            THEN aalt_partition(rest, SingleSubBuilder_insert(single, target, alts[1]), alt)
            ELSE aalt_partition(rest, single, AlternateSubBuilder_insert(alt, target, alts))

\* the lookups to prepend: `one` then `two`, each only if its builder is not empty
aalt_new_lookups(all_alts, serial) ==
    LET parts == aalt_partition(all_alts, DefaultSubtable, DefaultSubtable)
        one == IF ~is_empty(parts.single)
               THEN <<Lookup("Single",
                        LookupBuilder_new_with_lookups(0, None, <<parts.single>>), serial)>>
               ELSE <<>>
        two == IF ~is_empty(parts.alt)
               THEN <<Lookup("Alternate",
                        LookupBuilder_new_with_lookups(0, None, <<parts.alt>>),
                        serial + Len(one))>>
               ELSE <<>>
    IN one \o two

\* the walk over self.gsub that bumps the nested ids of contextual lookups
aalt_bump(lookups, n) ==
    [i \in DOMAIN lookups |->
        IF lookups[i].variant \in {"Contextual", "ChainedContextual"}
        THEN [lookups[i] EXCEPT !.subtables =
                [s \in DOMAIN @ |-> bump_all_lookup_ids(@[s], n)]]
        ELSE lookups[i]]

aalt_append(new, prev) == prev \o new

\* std::mem::replace(&mut self.gsub, lookups) then extend(prev_lookups)
aalt_prepend(new, prev) == new \o prev

insert_aalt_lookups(all_alts) ==
    /\ LET lookups == aalt_new_lookups(all_alts, next_serial)
           lookup_ids == [i \in 1..Len(lookups) |-> Gsub(i - 1)]
       IN /\ gsub' = aalt_prepend(lookups, aalt_bump(gsub, Len(lookups)))
          /\ next_serial' = next_serial + Len(lookups)
          /\ ret' = lookup_ids
    /\ op' = "insert_aalt_lookups"
    /\ UNCHANGED <<current, current_name, gpos, named, panic, started_kind,
                   started_since_name, ctx_pushed, finished>>

----------------------------------------------------------------------------
(* infer_glyph_classes *)

ClassIds == {"Base", "Ligature", "Mark"}

\* the glyph accessors of the mark subtable builders: a rule is stored under
\* the glyph the marks attach to (the base, the ligature, the first mark) and
\* holds the mark glyph attached
base_glyphs(sub) == DOMAIN sub

mark_glyphs(sub) == {sub[k] : k \in DOMAIN sub}

lig_glyphs(sub) == DOMAIN sub

mark1_glyphs(sub) == DOMAIN sub

mark2_glyphs(sub) == {sub[k] : k \in DOMAIN sub}

\* an inference that takes the ligature glyphs of mark-to-ligature lookups
\* for bases
infer_lig_as_base(lookup) ==
    IF lookup.variant = "MarkToLig"
    THEN UNION {{<<k, "Base">> : k \in lig_glyphs(lookup.subtables[s])}
                \cup {<<k, "Mark">> : k \in mark_glyphs(lookup.subtables[s])} :
                    s \in DOMAIN lookup.subtables}
    ELSE IF lookup.variant = "MarkToBase"
    THEN UNION {{<<k, "Base">> : k \in base_glyphs(lookup.subtables[s])}
                \cup {<<k, "Mark">> : k \in mark_glyphs(lookup.subtables[s])} :
                    s \in DOMAIN lookup.subtables}
    ELSE {}

\* the pairs f is called with for one lookup of self.gpos
infer_of_lookup(lookup) ==
    CASE lookup.variant = "MarkToBase" ->
            UNION {{<<k, "Base">> : k \in base_glyphs(lookup.subtables[s])}
                   \cup {<<k, "Mark">> : k \in mark_glyphs(lookup.subtables[s])} :
                        s \in DOMAIN lookup.subtables}
      [] lookup.variant = "MarkToLig" ->
            UNION {{<<k, "Ligature">> : k \in lig_glyphs(lookup.subtables[s])}
                   \cup {<<k, "Mark">> : k \in mark_glyphs(lookup.subtables[s])} :
                        s \in DOMAIN lookup.subtables}
      [] lookup.variant = "MarkToMark" ->
            UNION {{<<k, "Mark">> : k \in mark1_glyphs(lookup.subtables[s])
                                        \cup mark2_glyphs(lookup.subtables[s])} :
                        s \in DOMAIN lookup.subtables}
      [] OTHER -> {}

\* AllLookups::infer_glyph_classes(&self, f): the set of the pairs f is called
\* with, in no order; the call changes nothing of self
infer_glyph_classes ==
    /\ ret' = UNION {infer_of_lookup(gpos[i]) : i \in DOMAIN gpos}
    /\ op' = "infer_glyph_classes"
    /\ UNCHANGED <<current, current_name, gpos, gsub, named, panic, started_kind,
                   started_since_name, ctx_pushed, next_serial, finished>>

----------------------------------------------------------------------------
(* split_lookups *)

U16_MAX == 65535

ShouldntHappen == "this *really* shouldn't happen"
TryFromInt == "called Result::unwrap() on an Err value: TryFromIntError"

Die(msg) == [ok |-> FALSE, msg |-> msg]

\* usize -> u16 as a wrapping cast
try_into_u16_wrapping(x) == [ok |-> TRUE, val |-> x % (U16_MAX + 1)]

\* usize -> u16 by try_into().unwrap()
try_into_u16(x) == IF x <= U16_MAX THEN [ok |-> TRUE, val |-> x] ELSE Die(TryFromInt)

to_gpos_id_or_die(id) == IF IsGpos(id) THEN try_into_u16(id.idx) ELSE Die(ShouldntHappen)

to_gsub_id_or_die(id) == IF IsGsub(id) THEN try_into_u16(id.idx) ELSE Die(ShouldntHappen)

\* lookups.iter().map(|x| x.to_gpos_id_or_die()).collect(): the first panic ends it
RECURSIVE collect_gpos(_)
collect_gpos(ids) ==
    IF ids = <<>> THEN [ok |-> TRUE, val |-> <<>>]
    ELSE LET x == to_gpos_id_or_die(Head(ids))
         IN IF ~x.ok THEN x
            ELSE LET rest == collect_gpos(Tail(ids))
                 IN IF ~rest.ok THEN rest ELSE [ok |-> TRUE, val |-> <<x.val>> \o rest.val]

RECURSIVE collect_gsub(_)
collect_gsub(ids) ==
    IF ids = <<>> THEN [ok |-> TRUE, val |-> <<>>]
    ELSE LET x == to_gsub_id_or_die(Head(ids))
         IN IF ~x.ok THEN x
            ELSE LET rest == collect_gsub(Tail(ids))
                 IN IF ~rest.ok THEN rest ELSE [ok |-> TRUE, val |-> <<x.val>> \o rest.val]

\* the loop of the mixed case, from the buffers built so far
RECURSIVE split_mixed(_, _, _)
split_mixed(ids, gpos_buf, gsub_buf) ==
    IF ids = <<>> THEN [ok |-> TRUE, gpos |-> gpos_buf, gsub |-> gsub_buf]
    ELSE LET lookup == Head(ids)
         IN IF IsGpos(lookup)
            THEN LET x == to_gpos_id_or_die(lookup)
                 IN IF ~x.ok THEN x
                    ELSE split_mixed(Tail(ids), Append(gpos_buf, x.val), gsub_buf)
            ELSE IF IsGsub(lookup)
            THEN LET x == to_gsub_id_or_die(lookup)
                 IN IF ~x.ok THEN x
                    ELSE split_mixed(Tail(ids), gpos_buf, Append(gsub_buf, x.val))
            ELSE split_mixed(Tail(ids), gpos_buf, gsub_buf)

split_lookups(lookups) ==
    IF lookups = <<>> THEN [ok |-> TRUE, gpos |-> <<>>, gsub |-> <<>>]
    ELSE LET is_gpos == IsGpos(lookups[1])
         IN IF \A i \in DOMAIN lookups : IsGpos(lookups[i]) = is_gpos
            THEN IF is_gpos
                 THEN LET g == collect_gpos(lookups)
                      IN IF g.ok THEN [ok |-> TRUE, gpos |-> g.val, gsub |-> <<>>] ELSE g
                 ELSE LET g == collect_gsub(lookups)
                      IN IF g.ok THEN [ok |-> TRUE, gpos |-> <<>>, gsub |-> g.val] ELSE g
            ELSE split_mixed(lookups, <<>>, <<>>)

----------------------------------------------------------------------------
(* Tags.  A Tag is four bytes and is ordered as its bytes are.             *)

LANG_DFLT == <<100, 102, 108, 116>>     \* "dflt"
SIZE == <<115, 105, 122, 101>>          \* "size"
KERN == <<107, 101, 114, 110>>          \* "kern"
LIGA == <<108, 105, 103, 97>>           \* "liga"
SCRIPT_DFLT == <<68, 70, 76, 84>>       \* "DFLT"
SCRIPT_LATN == <<108, 97, 116, 110>>    \* "latn"
LANG_AZE == <<65, 90, 69, 32>>          \* "AZE "
LANG_TRK == <<84, 82, 75, 32>>          \* "TRK "

\* Ord of Tag: the first byte that differs decides
TagLess(a, b) ==
    \E i \in 1..4 : a[i] < b[i] /\ \A j \in 1..(i - 1) : a[j] = b[j]

\* the keys of a BTreeMap keyed by Tag, largest first
RECURSIVE BTreeKeys_desc(_)
BTreeKeys_desc(S) ==
    IF S = {} THEN <<>>
    ELSE LET m == CHOOSE x \in S : \A y \in S \ {x} : TagLess(y, x)
         IN <<m>> \o BTreeKeys_desc(S \ {m})

\* the keys of a BTreeMap keyed by Tag, in the order its iterator yields them
RECURSIVE BTreeKeys(_)
BTreeKeys(S) ==
    IF S = {} THEN <<>>
    ELSE LET m == CHOOSE x \in S : \A y \in S \ {x} : TagLess(x, y)
         IN <<m>> \o BTreeKeys(S \ {m})

FeatureKey(feature, language, script) ==
    [feature |-> feature, language |-> language, script |-> script]

----------------------------------------------------------------------------
(* PosSubBuilder<T> *)

EmptyMap == [x \in {} |-> None]

\* LangSys::default(): no required feature (0xFFFF), no features
LangSys_default == [required_feature_index |-> U16_MAX, feature_indices |-> <<>>]

PosSubBuilder_new(lookups) ==
    [lookups |-> lookups, scripts |-> EmptyMap, features |-> EmptyMap]

\* entry(k).or_default() of a map
EntryOrDefault(m, k, default) == IF k \in DOMAIN m THEN m[k] ELSE default

\* the index a feature is put under even when its key has one
features_entry_overwrite(feats, feat_key, next_feature) ==
    MapInsert(feats, feat_key, next_feature)

\* self.features.entry(feat_key).or_insert_with(|| next_feature)
features_entry(feats, feat_key, next_feature) ==
    IF feat_key \in DOMAIN feats THEN feats
    ELSE MapInsert(feats, feat_key, next_feature)

\* a required feature that is pushed to the list as well
lang_sys_set_both(lang_sys, idx, required) ==
    [required_feature_index |-> IF required THEN idx ELSE lang_sys.required_feature_index,
     feature_indices |-> Append(lang_sys.feature_indices, idx)]

\* the if required .. else .. at the end of add
lang_sys_set(lang_sys, idx, required) ==
    IF required
    THEN [lang_sys EXCEPT !.required_feature_index = idx]
    ELSE [lang_sys EXCEPT !.feature_indices = Append(@, idx)]

RanOut == "ran out of u16s"

\* PosSubBuilder::add: the builder after the call and the index of the feature
PosSubBuilder_add(b, key, lookups, required) ==
    LET feat_key == <<key.feature, lookups>>
        next_feature == Cardinality(DOMAIN b.features)
    IN IF feat_key \notin DOMAIN b.features /\ next_feature > U16_MAX
       THEN Die(RanOut)
       ELSE LET feats == features_entry(b.features, feat_key, next_feature)
                idx == feats[feat_key]
                langs == EntryOrDefault(b.scripts, key.script, EmptyMap)
                lang_sys == EntryOrDefault(langs, key.language, LangSys_default)
            IN [ok |-> TRUE,
                idx |-> idx,
                b |-> [b EXCEPT
                        !.features = feats,
                        !.scripts = MapInsert(b.scripts, key.script,
                                        MapInsert(langs, key.language,
                                            lang_sys_set(lang_sys, idx, required)))]]

\* Builder::build of a PositionLookup / SubstitutionLookup: a RawLookup of
\* the same type with the flags, the filter set or 0, and the subtables its
\* subtable builders make
Lookup_build(l) ==
    [lookup_type |-> l.variant,
     lookup_flag |-> l.flags,
     mark_filter_set |-> IF IsSome(l.mark_set) THEN Unwrap(l.mark_set) ELSE 0,
     subtables |-> l.subtables,
     serial |-> l.serial]

\* the vector filled by index from self.features
FeatureList(feats) ==
    [i \in 1..Cardinality(DOMAIN feats) |->
        IF \E k \in DOMAIN feats : feats[k] = i - 1
        THEN LET k == CHOOSE k \in DOMAIN feats : feats[k] = i - 1
             IN [feature_tag |-> k[1], lookup_list_indices |-> k[2]]
        ELSE [feature_tag |-> <<0, 0, 0, 0>>, lookup_list_indices |-> <<>>]]

\* one Script from the languages of a script
Script_of(entry) ==
    LET langs == BTreeKeys(DOMAIN entry)
        others == SelectSeq(langs, LAMBDA t : t # LANG_DFLT)
    IN [default_lang_sys |-> IF LANG_DFLT \in DOMAIN entry
                             THEN Some(entry[LANG_DFLT]) ELSE None,
        lang_sys_records |-> [i \in DOMAIN others |->
                                [lang_sys_tag |-> others[i], lang_sys |-> entry[others[i]]]]]

ScriptList(scripts) ==
    LET tags == BTreeKeys(DOMAIN scripts)
    IN [i \in DOMAIN tags |->
            [script_tag |-> tags[i], script |-> Script_of(scripts[tags[i]])]]

\* a table without lookups never comes out
build_raw_by_lookups(b) ==
    IF b.lookups = <<>>
    THEN None
    ELSE Some([lookup_list |-> [i \in DOMAIN b.lookups |-> Lookup_build(b.lookups[i])],
               script_list |-> ScriptList(b.scripts),
               feature_list |-> FeatureList(b.features)])

\* PosSubBuilder::build_raw, and with it build
build_raw(b) ==
    IF b.lookups = <<>> /\ DOMAIN b.features = {}
    THEN None
    ELSE Some([lookup_list |-> [i \in DOMAIN b.lookups |-> Lookup_build(b.lookups[i])],
               script_list |-> ScriptList(b.scripts),
               feature_list |-> FeatureList(b.features)])

----------------------------------------------------------------------------
(* AllLookups::build *)

\* Ord of FeatureKey: by feature, then language, then script
FeatureKeyLess(a, b) ==
    \/ TagLess(a.feature, b.feature)
    \/ a.feature = b.feature /\ TagLess(a.language, b.language)
    \/ a.feature = b.feature /\ a.language = b.language /\ TagLess(a.script, b.script)

\* the keys of the features map in the order the loop of build takes them
RECURSIVE FeatureKeys(_)
FeatureKeys(S) ==
    IF S = {} THEN <<>>
    ELSE LET m == CHOOSE x \in S : \A y \in S \ {x} : FeatureKeyLess(x, y)
         IN <<m>> \o FeatureKeys(S \ {m})

is_size_never(key) == FALSE

\* key.feature == tags::SIZE
is_size(key) == key.feature = SIZE

\* one add call of build on the builder of a table; st holds both builders
\* and the add calls made on each
builder_add(st, table, key, lookups, required) ==
    LET r == PosSubBuilder_add(st.builder[table], key, lookups, required)
    IN IF ~r.ok THEN r
       ELSE [ok |-> TRUE,
             builder |-> [st.builder EXCEPT ![table] = r.b],
             adds |-> [st.adds EXCEPT ![table] =
                        Append(@, [key |-> key, lookups |-> lookups, required |-> required])]]

\* the loop of build over the features from keys on
RECURSIVE build_loop(_, _, _, _)
build_loop(keys, feats, required_set, st) ==
    IF keys = <<>> THEN st
    ELSE LET key == Head(keys)
             required == key \in required_set
         IN IF is_size(key)
            THEN LET r == builder_add(st, "Gpos", key, <<>>, required)
                 IN IF ~r.ok THEN r
                    ELSE build_loop(Tail(keys), feats, required_set, r)
            ELSE LET sp == split_lookups(feats[key])
                 IN IF ~sp.ok THEN sp
                    ELSE LET one == IF sp.gpos # <<>>
                                    THEN builder_add(st, "Gpos", key, sp.gpos, required)
                                    ELSE st
                         IN IF ~one.ok THEN one
                            ELSE LET two == IF sp.gsub # <<>>
                                            THEN builder_add(one, "Gsub", key, sp.gsub, required)
                                            ELSE one
                                 IN IF ~two.ok THEN two
                                    ELSE build_loop(Tail(keys), feats, required_set, two)

\* AllLookups::build: the two tables, and the add calls made for them
AllLookups_build(feats, required_set) ==
    LET st == build_loop(FeatureKeys(DOMAIN feats), feats, required_set,
                    [ok |-> TRUE,
                     builder |-> [Gpos |-> PosSubBuilder_new(gpos),
                                  Gsub |-> PosSubBuilder_new(gsub)],
                     adds |-> [Gpos |-> <<>>, Gsub |-> <<>>]])
    IN IF ~st.ok THEN st
       ELSE [ok |-> TRUE,
             gsub |-> build_raw(st.builder["Gsub"]),
             gpos |-> build_raw(st.builder["Gpos"]),
             adds |-> st.adds]

InitBuilder(lookups) ==
    /\ psb = PosSubBuilder_new(lookups)
    /\ psb_added = {}
    /\ psb_last = None
    /\ psb_out = None

InitFeatures ==
    /\ features = EmptyMap
    /\ required_features = {}
    /\ build_out = None

----------------------------------------------------------------------------
(* ClassDefBuilder2 (lookups/helpers.rs).  A GlyphClass is the sequence of *)
(* its glyph ids, in the order it was written, duplicates kept.            *)

ClassDefBuilder2_new(use_class_0) ==
    [classes |-> {}, glyphs |-> {}, use_class_0 |-> use_class_0]

GlyphsOf(cls) == {cls[i] : i \in DOMAIN cls}

can_add(b, cls) ==
    cls \in b.classes \/ \A gid \in GlyphsOf(cls) : gid \notin b.glyphs

\* the class is entered and its glyphs are not
ClassDefBuilder2_add_class_only(b, cls) ==
    [b EXCEPT !.classes = @ \cup {cls}]

ClassDefBuilder2_add(b, cls) ==
    [b EXCEPT !.glyphs = @ \cup GlyphsOf(cls), !.classes = @ \cup {cls}]

\* cls.iter().next().unwrap_or_default(): the first glyph, or glyph 0
first_glyph(cls) == IF cls = <<>> THEN 0 ELSE cls[1]

\* the order of the keys (Reverse(cls.len()), first glyph)
SortKeyLess(a, b) ==
    \/ Len(a) > Len(b)
    \/ Len(a) = Len(b) /\ first_glyph(a) < first_glyph(b)

\* what sort_unstable_by_key can make of the classes of the HashSet: every
\* order of them in which no key is before a smaller one
RECURSIVE SortedOrders(_)
SortedOrders(classes) ==
    IF classes = {} THEN {<<>>}
    ELSE UNION {{<<m>> \o rest : rest \in SortedOrders(classes \ {m})} :
                    m \in {x \in classes : \A y \in classes : ~SortKeyLess(y, x)}}

\* u16::from(!self.use_class_0)
add_one(b) == IF b.use_class_0 THEN 0 ELSE 1

\* the map from each class to its position plus add_one
ClassMapping(b, order) ==
    [cls \in b.classes |->
        (CHOOSE i \in DOMAIN order : order[i] = cls) - 1 + add_one(b)]

\* the class-defs the (glyph, id) pairs of a mapping can be collected to: a
\* glyph of gids gets the id of a class that holds it
RECURSIVE ClassDefs(_, _, _)
ClassDefs(gids, classes, mapping) ==
    IF gids = {} THEN {EmptyMap}
    ELSE LET gid == CHOOSE g \in gids : TRUE
         IN UNION {{MapInsert(cd, gid, mapping[cls]) :
                        cd \in ClassDefs(gids \ {gid}, classes, mapping)} :
                    cls \in {c \in classes : gid \in GlyphsOf(c)}}

\* ClassDefBuilder2::build: the results it can give
ClassDefBuilder2_build(b) ==
    UNION {{[class_def |-> cd, mapping |-> ClassMapping(b, order)] :
                cd \in ClassDefs(b.glyphs, b.classes, ClassMapping(b, order))} :
            order \in SortedOrders(b.classes)}

InitClassDef(use_class_0) ==
    /\ cdb = ClassDefBuilder2_new(use_class_0)
    /\ cdb_out = None

----------------------------------------------------------------------------
(* The lexer (src/lexer.rs).  A Lexer is the record [input, pos,           *)
(* after_backslash]; the input is a sequence of bytes.  A scanning method  *)
(* gives [kind, l, returns]: the kind it returns, the lexer it leaves, and *)
(* whether it returns at all.                                              *)

EOF == 0

NL == 10
QUOTE == 34
HASH == 35
ZERO == 48
BACKSLASH == 92
LOWER_X == 120

\* the text of the one keyword the specification names (S2)
SUB == <<115, 117, 98>>

Lexer_new(input) == [input |-> input, pos |-> 0, after_backslash |-> FALSE]

nth(l, index) ==
    IF l.pos + index < Len(l.input) THEN l.input[l.pos + index + 1] ELSE EOF

\* bump, for the lexer it leaves: pos moves only when a byte is left
bump(l) == [l EXCEPT !.pos = IF l.pos < Len(l.input) THEN l.pos + 1 ELSE l.pos]

is_special(byte) ==
    \/ byte \in 39..45
    \/ byte \in 59..64
    \/ byte \in 91..93
    \/ byte = 123
    \/ byte = 125

is_ascii_whitespace(byte) == byte = 32 \/ byte \in 9..13

is_ascii_digit(byte) == byte \in 48..57

is_ascii_hexdigit(byte) == byte \in 48..57 \/ byte \in 65..70 \/ byte \in 97..102

Returns(kind, l) == [kind |-> kind, l |-> l, returns |-> TRUE]

\* a loop whose condition holds and whose body leaves the lexer as it was
NeverReturns(kind, l) == [kind |-> kind, l |-> l, returns |-> FALSE]

RECURSIVE whitespace(_)
whitespace(l) ==
    IF is_ascii_whitespace(nth(l, 0)) THEN whitespace(bump(l))
    ELSE Returns("Whitespace", l)

\* while [b'\n', EOF].contains(&self.nth(0)) { self.bump(); }
RECURSIVE comment(_)
comment(l) ==
    IF nth(l, 0) \in {NL, EOF}
    THEN IF bump(l) = l THEN NeverReturns("Comment", l) ELSE comment(bump(l))
    ELSE Returns("Comment", l)

RECURSIVE string(_)
string(l) ==
    IF nth(l, 0) = QUOTE THEN Returns("String", bump(l))
    ELSE IF nth(l, 0) = EOF THEN Returns("StringUnterminated", l)
    ELSE string(bump(l))

RECURSIVE eat_hex_digits(_)
eat_hex_digits(l) ==
    IF is_ascii_hexdigit(nth(l, 0)) THEN eat_hex_digits(bump(l)) ELSE l

RECURSIVE eat_decimal_digits(_)
eat_decimal_digits(l) ==
    IF is_ascii_digit(nth(l, 0)) THEN eat_decimal_digits(bump(l)) ELSE l

number(l, leading_zero) ==
    IF leading_zero /\ nth(l, 0) \in {LOWER_X, 88}
    THEN LET l1 == bump(l)
         IN IF is_ascii_hexdigit(nth(l1, 0))
            THEN Returns("NumberHex", eat_hex_digits(l1))
            ELSE Returns("NumberHexEmpty", l1)
    ELSE LET l1 == eat_decimal_digits(l)
         IN IF nth(l1, 0) = 46
            THEN Returns("NumberFloat", eat_decimal_digits(bump(l1)))
            ELSE Returns("NumberDec", l1)

RECURSIVE eat_ident(_)
eat_ident(l) ==
    LET b == nth(l, 0)
    IN IF b = EOF THEN l
       ELSE IF is_ascii_whitespace(b) THEN l
       ELSE IF b = 45 THEN eat_ident(bump(l))
       ELSE IF is_special(b) THEN l
       ELSE eat_ident(bump(l))

glyph_class_name(l) == Returns("NamedGlyphClass", eat_ident(l))

\* Kind::from_keyword
from_keyword(raw_token) == IF raw_token = SUB THEN Some("SubKw") ELSE None

\* ident with the flag ignored: the text is always looked up
ident_no_escape(l) ==
    LET start_pos == IF l.pos = 0 THEN 0 ELSE l.pos - 1
        l1 == eat_ident(l)
        raw_token == SubSeq(l1.input, start_pos + 1, l1.pos)
    IN Returns(IF IsSome(from_keyword(raw_token))
               THEN Unwrap(from_keyword(raw_token)) ELSE "Ident", l1)

ident(l) ==
    LET start_pos == IF l.pos = 0 THEN 0 ELSE l.pos - 1
        l1 == eat_ident(l)
        raw_token == SubSeq(l1.input, start_pos + 1, l1.pos)
    IN IF l.after_backslash THEN Returns("Ident", l1)
       ELSE Returns(IF IsSome(from_keyword(raw_token))
                    THEN Unwrap(from_keyword(raw_token)) ELSE "Ident", l1)

\* the kinds of the one-byte tokens
Punctuation ==
    (59 :> "Semi") @@ (44 :> "Comma") @@ (BACKSLASH :> "Backslash")
    @@ (45 :> "Hyphen") @@ (61 :> "Eq") @@ (123 :> "LBrace") @@ (125 :> "RBrace")
    @@ (91 :> "LSquare") @@ (93 :> "RSquare") @@ (40 :> "LParen")
    @@ (41 :> "RParen") @@ (60 :> "LAngle") @@ (62 :> "RAngle")
    @@ (39 :> "SingleQuote")

\* next_token with the lexer left by bump: the match on the first byte
scan(first, l) ==
    IF first = EOF THEN Returns("Eof", l)
    ELSE IF is_ascii_whitespace(first) THEN whitespace(l)
    ELSE IF first = HASH THEN comment(l)
    ELSE IF first = QUOTE THEN string(l)
    ELSE IF first = ZERO THEN number(l, TRUE)
    ELSE IF first \in 49..57 THEN number(l, FALSE)
    ELSE IF first = 64 THEN glyph_class_name(l)
    ELSE IF first \in DOMAIN Punctuation THEN Returns(Punctuation[first], l)
    ELSE ident(l)

\* next_token: [returns, l, token]; a call that does not return leaves the
\* lexer where its loop stays
next_token(l) ==
    LET start_pos == l.pos
        first == nth(l, 0)
        r == scan(first, bump(l))
    IN IF r.returns
       THEN [returns |-> TRUE,
             l |-> [r.l EXCEPT !.after_backslash = (r.kind = "Backslash")],
             token |-> [len |-> r.l.pos - start_pos, kind |-> r.kind]]
       ELSE [returns |-> FALSE, l |-> r.l, token |-> [len |-> 0, kind |-> r.kind]]

InitLexer(input) ==
    /\ lex_input = input
    /\ lexer = Lexer_new(input)
    /\ lex_tokens = <<>>
    /\ lex_hung = FALSE

----------------------------------------------------------------------------
(* The tree sink (fea-rs/src/token_tree.rs).  A text is a sequence of      *)
(* bytes.  An item of the tree is a Token [type, kind, text] or a Node     *)
(* [type, kind, rel_pos, text_len, error, children]; the absolute position *)
(* cell is written by cursors only and is left out.  A glyph map is the    *)
(* set of the names it contains.                                           *)

HYPHEN == 45

Token_new(kind, text) == [type |-> "Token", kind |-> kind, text |-> text]

IsToken(item) == item.type = "Token"

\* NodeOrToken::text_len
text_len(item) == IF IsToken(item) THEN Len(item.text) ELSE item.text_len

RECURSIVE SumTextLen(_)
SumTextLen(children) ==
    IF children = <<>> THEN 0
    ELSE text_len(children[1]) + SumTextLen(Tail(children))

\* Node::new leaving every child node at the start of its parent
Node_new_at_start(kind, children, error) ==
    [type |-> "Node", kind |-> kind, rel_pos |-> 0,
     text_len |-> SumTextLen(children), error |-> error,
     children |-> children]

\* Node::new: a child node is moved to where it starts in its parent
Node_new(kind, children, error) ==
    [type |-> "Node", kind |-> kind, rel_pos |-> 0,
     text_len |-> SumTextLen(children), error |-> error,
     children |-> [i \in 1..Len(children) |->
                    IF IsToken(children[i]) THEN children[i]
                    ELSE [children[i] EXCEPT !.rel_pos =
                            @ + SumTextLen(SubSeq(children, 1, i - 1))]]]

TreeBuilder_default == [parents |-> <<>>, children |-> <<>>]

TreeBuilder_start_node(b, kind) ==
    [b EXCEPT !.parents =
        Append(@, [kind |-> kind, first_child |-> Len(b.children)])]

push_raw(b, item) == [b EXCEPT !.children = Append(@, item)]

TreeBuilder_token(b, kind, text) == push_raw(b, Token_new(kind, text))

\* TreeBuilder::finish_node, when a parent is there to pop
TreeBuilder_finish_node(b, error) ==
    LET parent == b.parents[Len(b.parents)]
        node == Node_new(parent.kind,
                         SubSeq(b.children, parent.first_child + 1, Len(b.children)),
                         error)
    IN push_raw([parents |-> SubSeq(b.parents, 1, Len(b.parents) - 1),
                 children |-> SubSeq(b.children, 1, parent.first_child)],
                node)

\* TreeBuilder::finish: the node, or the panic of the assertion or the unwrap
TreeBuilder_finish(b) ==
    IF Len(b.children) # 1 THEN [ok |-> FALSE, panic |-> "assertion failed"]
    ELSE IF IsToken(b.children[1]) THEN [ok |-> FALSE, panic |-> "unwrap on None"]
    ELSE [ok |-> TRUE, node |-> b.children[1]]

\* GlyphMap::contains
contains(map, name) == name \in map

\* str::trim_start_matches('-')
RECURSIVE trim_start_matches(_)
trim_start_matches(text) ==
    IF text # <<>> /\ text[1] = HYPHEN THEN trim_start_matches(Tail(text))
    ELSE text

\* str::split_at
split_at(text, idx) ==
    [head |-> SubSeq(text, 1, idx), tail |-> SubSeq(text, idx + 1, Len(text))]

\* the indices of the hyphens of the text, in order
RECURSIVE HyphensFrom(_, _)
HyphensFrom(text, idx) ==
    IF idx >= Len(text) THEN <<>>
    ELSE IF text[idx + 1] = HYPHEN THEN <<idx>> \o HyphensFrom(text, idx + 1)
    ELSE HyphensFrom(text, idx + 1)

\* the test of a split point in try_split_range
is_split(text, glyph_map, idx) ==
    /\ contains(glyph_map, split_at(text, idx).head)
    /\ contains(glyph_map, trim_start_matches(split_at(text, idx).tail))

\* the node try_split_range makes of its solution
range_node(text, idx) ==
    LET b1 == TreeBuilder_start_node(TreeBuilder_default, "GlyphRange")
        b2 == TreeBuilder_token(b1, "GlyphName", split_at(text, idx).head)
        b3 == TreeBuilder_token(b2, "Hyphen", <<HYPHEN>>)
        b4 == TreeBuilder_token(b3, "GlyphName",
                                trim_start_matches(split_at(text, idx).tail))
    IN TreeBuilder_finish(TreeBuilder_finish_node(b4, FALSE)).node

\* the loop of try_split_range over the split points left, then its result
RECURSIVE split_loop(_, _, _, _)
split_loop(text, glyph_map, idxs, solution) ==
    IF idxs = <<>>
    THEN IF IsSome(solution)
         THEN [ok |-> TRUE, node |-> range_node(text, Unwrap(solution))]
         ELSE [ok |-> FALSE, message |-> [what |-> "neither", text |-> text]]
    ELSE IF is_split(text, glyph_map, idxs[1])
         THEN IF IsSome(solution)
              THEN [ok |-> FALSE,
                    message |-> [what |-> "multiple", text |-> text,
                                 first |-> Unwrap(solution), second |-> idxs[1]]]
              ELSE split_loop(text, glyph_map, Tail(idxs), Some(idxs[1]))
         ELSE split_loop(text, glyph_map, Tail(idxs), solution)

try_split_range(text, glyph_map) ==
    split_loop(text, glyph_map, HyphensFrom(text, 0), None)

AstSink_new(text, glyph_map) ==
    [text |-> text, text_pos |-> 0, builder |-> TreeBuilder_default,
     glyph_map |-> glyph_map, errors |-> <<>>,
     cur_node_contains_error |-> FALSE]

AstSink_error(s, error) ==
    [s EXCEPT !.errors = Append(@, error), !.cur_node_contains_error = TRUE]

\* validate_token: [item, s], the item to add and the sink it leaves
validate_token(s, kind, text) ==
    IF kind = "GlyphNameOrRange" /\ IsSome(s.glyph_map)
    THEN LET map == Unwrap(s.glyph_map)
             r == try_split_range(text, map)
         IN IF contains(map, text)
            THEN [item |-> Token_new("GlyphName", text), s |-> s]
            ELSE IF r.ok THEN [item |-> r.node, s |-> s]
            ELSE [item |-> Token_new(kind, text),
                  s |-> AstSink_error(s, [message |-> r.message,
                                          range |-> <<s.text_pos,
                                                      s.text_pos + Len(text)>>])]
    ELSE [item |-> Token_new(kind, text), s |-> s]

AstSink_token(s, kind, len) ==
    LET token_text == SubSeq(s.text, s.text_pos + 1, s.text_pos + len)
        v == validate_token(s, kind, token_text)
    IN [v.s EXCEPT !.builder = push_raw(@, v.item), !.text_pos = @ + len]

AstSink_start_node(s, kind) ==
    [s EXCEPT !.builder = TreeBuilder_start_node(@, kind)]

AstSink_finish_node(s) ==
    [s EXCEPT !.builder = TreeBuilder_finish_node(@, s.cur_node_contains_error),
              !.cur_node_contains_error = FALSE]

\* Node::iter_tokens: the tokens of the tree, in order
RECURSIVE iter_tokens(_)
iter_tokens(items) ==
    IF items = <<>> THEN <<>>
    ELSE (IF IsToken(items[1]) THEN <<items[1]>>
          ELSE iter_tokens(items[1].children))
         \o iter_tokens(Tail(items))

InitSink(text, glyph_map) ==
    /\ sink = AstSink_new(text, glyph_map)
    /\ sink_out = None
    /\ sink_diag = <<>>
    /\ sink_items = <<>>
    /\ sink_op = "new"

----------------------------------------------------------------------------
(* The drivers: calls in any order, with arguments from small sets *)

Running == panic = "none"

\* alternates maps given to insert_aalt_lookups
AltMaps == { <<>>,
             (1 :> <<2>>),
             (1 :> <<2, 3>>),
             (1 :> <<2>>) @@ (2 :> <<1, 3>>),
             (1 :> <<>>) }

\* the ids a rule can name: the ids of the lookups in the vectors, which
\* start_lookup, finish_current and get_named hand to the driver, the ids of
\* the anonymous lookups of the current builder, and Empty
KnownIds ==
    {Gpos(i - 1) : i \in 1..Len(gpos)} \cup {Gsub(i - 1) : i \in 1..Len(gsub)}
    \cup {named[n] : n \in DOMAIN named} \cup {Empty}
    \cup (IF IsSome(current) /\ IsContextual(Unwrap(current))
          THEN LET b == Unwrap(current).lookup
               IN {[b.root_id EXCEPT !.idx = to_raw(b.root_id) + j] :
                        j \in 1..Len(b.anon_lookups)}
          ELSE {})

NestedChoices == {<<>>} \cup {<<id>> : id \in KnownIds}

StartNamed ==
    /\ Running
    /\ \E name \in Names : start_named(name)
    /\ UNCHANGED nonLookupVars

StartLookup(max) ==
    /\ Running
    /\ Size < max
    /\ \E kind \in DriverKinds, flags \in FlagInfos : start_lookup(kind, flags)
    /\ UNCHANGED nonLookupVars

FinishCurrent ==
    /\ Running
    /\ finish_current
    /\ UNCHANGED nonLookupVars

AddSubtableBreak(max) ==
    /\ Running
    /\ IsSome(current) => Size < max
    /\ add_subtable_break
    /\ UNCHANGED nonLookupVars

AddContextualRule(max) ==
    /\ Running
    /\ Size < max
    /\ \E backtrack \in {<<>>, <<1>>}, nested \in NestedChoices :
            add_contextual_rule(backtrack, <<[glyph |-> 2, lookups |-> nested]>>, <<>>)
    /\ UNCHANGED nonLookupVars

AddAnon(max) ==
    /\ Running
    /\ Size < max
    /\ \E table \in {"Gsub", "Gpos"} : add_anon(table, 1, 2)
    /\ UNCHANGED nonLookupVars

\* a lookup of any kind SomeLookup::new accepts
StartAnyLookup(max) ==
    /\ Running
    /\ Size < max
    /\ \E kind \in Kinds, flags \in FlagInfos : start_lookup(kind, flags)
    /\ UNCHANGED nonLookupVars

AddRule(max) ==
    /\ Running
    /\ Size < max
    /\ \E name \in RuleEntrypoints, target \in {1, 2} : add_rule(name, target, 3)
    /\ UNCHANGED nonLookupVars

\* the aalt pass of a compilation: no lookup has been prepended before it
InsertAalt ==
    /\ Running
    /\ AaltLookups = <<>>
    /\ \E all_alts \in AltMaps : insert_aalt_lookups(all_alts)
    /\ UNCHANGED nonLookupVars

\* the kinds of the lookups of a run that ends in the inference of glyph
\* classes: the three mark kinds, another GPOS kind and a GSUB kind
InferKinds == {"GposType1", "GposType4", "GposType5", "GposType6", "GsubType1"}

StartInferLookup(max) ==
    /\ Running
    /\ Size < max
    /\ \E kind \in InferKinds, flags \in FlagInfos : start_lookup(kind, flags)
    /\ UNCHANGED nonLookupVars

\* a rule added through the entrypoint of the current lookup's kind
AddMatchingRule ==
    /\ Running
    /\ IsSome(current)
    /\ \E name \in RuleEntrypoints, target \in {1, 2} :
            /\ Expects(name, Unwrap(current))
            /\ add_rule(name, target, 3)
    /\ UNCHANGED nonLookupVars

InferGlyphClasses ==
    /\ Running
    /\ infer_glyph_classes
    /\ UNCHANGED nonLookupVars

\* the sequencing calls alone
NextSeq ==
    \/ StartNamed
    \/ StartLookup(MaxSeqSize)
    \/ AddSubtableBreak(MaxSeqSize)
    \/ FinishCurrent

\* the contextual engine and the aalt pass
NextCtx ==
    \/ StartLookup(MaxSize)
    \/ AddSubtableBreak(MaxSize)
    \/ AddContextualRule(MaxSize)
    \/ AddAnon(MaxSize)
    \/ FinishCurrent
    \/ InsertAalt

\* the rule entrypoints on lookups of every kind
NextRule ==
    \/ StartAnyLookup(MaxRuleSize)
    \/ AddRule(MaxRuleSize)
    \/ AddContextualRule(MaxRuleSize)
    \/ AddAnon(MaxRuleSize)
    \/ FinishCurrent

\* every call
Next ==
    \/ StartNamed
    \/ StartLookup(MaxSize)
    \/ AddSubtableBreak(MaxSize)
    \/ AddContextualRule(MaxSize)
    \/ AddAnon(MaxSize)
    \/ AddRule(MaxSize)
    \/ FinishCurrent
    \/ InsertAalt

Init ==
    /\ InitLookups
    /\ split_in = <<>>
    /\ split_out = None
    /\ InitBuilder(<<>>)
    /\ InitFeatures
    /\ InitClassDef(FALSE)
    /\ InitLexer(<<>>)
    /\ InitSink(<<>>, None)

Spec == Init /\ [][Next]_vars

SpecSeq == Init /\ [][NextSeq]_vars

SpecCtx == Init /\ [][NextCtx]_vars

SpecRule == Init /\ [][NextRule]_vars

\* named lookups and the aalt pass
NextNamed ==
    \/ StartNamed
    \/ StartLookup(MaxSeqSize)
    \/ FinishCurrent
    \/ InsertAalt

SpecNamed == Init /\ [][NextNamed]_vars

\* rules and subtable breaks on lookups of every kind, and the aalt pass
NextTables ==
    \/ StartAnyLookup(MaxTableLookups)
    \/ AddSubtableBreak(MaxRuleSize)
    \/ AddRule(MaxSize)
    \/ AddContextualRule(MaxRuleSize)
    \/ FinishCurrent
    \/ InsertAalt

SpecTables == Init /\ [][NextTables]_vars

\* mark lookups and the inference of glyph classes
NextInfer ==
    \/ StartInferLookup(MaxRuleSize)
    \/ AddSubtableBreak(MaxSize)
    \/ AddMatchingRule
    \/ FinishCurrent
    \/ InferGlyphClasses

SpecInfer == Init /\ [][NextInfer]_vars

(* split_lookups on every slice of at most MaxSplitLen ids *)

IdxVals == (0..MaxIdx) \cup {U16_MAX, U16_MAX + 1}

SplitIds == {Gpos(i) : i \in IdxVals} \cup {Gsub(i) : i \in IdxVals} \cup {Empty}

Slices == UNION {[1..k -> SplitIds] : k \in 0..MaxSplitLen}

InitSplit ==
    /\ InitLookups
    /\ split_in \in Slices
    /\ split_out = None
    /\ InitBuilder(<<>>)
    /\ InitFeatures
    /\ InitClassDef(FALSE)
    /\ InitLexer(<<>>)
    /\ InitSink(<<>>, None)

Split ==
    /\ split_out = None
    /\ split_out' = Some(split_lookups(split_in))
    /\ UNCHANGED split_in
    /\ UNCHANGED <<lookupVars, builderVars, buildVars, classVars, textVars>>

SpecSplit == InitSplit /\ [][Split]_vars

----------------------------------------------------------------------------
(* A PosSubBuilder alone: add calls in any order, then build *)

\* the language systems the add calls name: the default of two scripts and
\* two more languages of the second
PsbLangSystems ==
    {<<SCRIPT_DFLT, LANG_DFLT>>, <<SCRIPT_LATN, LANG_DFLT>>,
     <<SCRIPT_LATN, LANG_AZE>>, <<SCRIPT_LATN, LANG_TRK>>}

PsbKeys ==
    {FeatureKey(f, ls[2], ls[1]) : f \in {KERN, LIGA}, ls \in PsbLangSystems}

\* lists of u16 lookup indices
PsbLists == {<<0>>, <<1, 0>>}

\* the vectors PosSubBuilder::new is given: none, or one finished lookup
PsbLookupVecs == {<<>>, <<Lookup("Single", LookupBuilder_new(0, None), 1)>>}

PsbCalls == IF IsNone(psb_last) THEN 0 ELSE Unwrap(psb_last).n

PsbAdd ==
    /\ Running
    /\ IsNone(psb_out)
    /\ PsbCalls < MaxAdds
    /\ \E key \in PsbKeys, lookups \in PsbLists, required \in BOOLEAN :
        LET r == PosSubBuilder_add(psb, key, lookups, required)
        IN IF r.ok
           THEN /\ psb' = r.b
                /\ psb_added' = psb_added \cup
                        {[feature |-> key.feature, lookups |-> lookups, idx |-> r.idx]}
                /\ psb_last' = Some([key |-> key, lookups |-> lookups,
                                     required |-> required, idx |-> r.idx,
                                     n |-> PsbCalls + 1])
                /\ UNCHANGED <<psb_out, lookupVars>>
           ELSE /\ Abort(r.msg, "add")
                /\ UNCHANGED builderVars
    /\ UNCHANGED <<splitVars, buildVars, classVars, textVars>>

\* build consumes the builder
PsbBuild ==
    /\ Running
    /\ IsNone(psb_out)
    /\ psb_out' = Some(build_raw(psb))
    /\ UNCHANGED <<psb, psb_added, psb_last, lookupVars, splitVars, buildVars,
                   classVars, textVars>>

InitPosSub ==
    /\ InitLookups
    /\ split_in = <<>>
    /\ split_out = None
    /\ \E lookups \in PsbLookupVecs : InitBuilder(lookups)
    /\ InitFeatures
    /\ InitClassDef(FALSE)
    /\ InitLexer(<<>>)
    /\ InitSink(<<>>, None)

NextPosSub ==
    \/ PsbAdd
    \/ PsbBuild

SpecPosSub == InitPosSub /\ [][NextPosSub]_vars

----------------------------------------------------------------------------
(* A compilation that ends in build: lookups, the features bound to them,  *)
(* the required features, then build                                       *)

BuildKinds == {"GposType1", "GsubType1"}

BuildKeys ==
    {FeatureKey(f, ls[2], ls[1]) :
        f \in {SIZE, KERN},
        ls \in {<<SCRIPT_DFLT, LANG_DFLT>>, <<SCRIPT_LATN, LANG_TRK>>}}

RECURSIVE SumListLen(_, _)
SumListLen(feats, S) ==
    IF S = {} THEN 0
    ELSE LET k == CHOOSE k \in S : TRUE
         IN 1 + Len(feats[k]) + SumListLen(feats, S \ {k})

FeatSize(feats) == SumListLen(feats, DOMAIN feats)

StartPlainLookup(max) ==
    /\ Running
    /\ Size < max
    /\ \E kind \in BuildKinds, flags \in FlagInfos : start_lookup(kind, flags)
    /\ UNCHANGED nonLookupVars

\* the caller's features map: a feature is entered, or a lookup id it was
\* handed is put at the end of the list of a feature
AddFeatureLookup ==
    /\ Running
    /\ IsNone(build_out)
    /\ \E key \in BuildKeys, ids \in {<<>>} \cup {<<id>> : id \in KnownIds} :
        LET feats == MapInsert(features, key, EntryOrDefault(features, key, <<>>) \o ids)
        IN /\ feats # features
           /\ FeatSize(feats) <= MaxFeatSize
           /\ features' = feats
    /\ UNCHANGED <<required_features, build_out, lookupVars, splitVars,
                   builderVars, classVars, textVars>>

RequireFeature ==
    /\ Running
    /\ IsNone(build_out)
    /\ \E key \in DOMAIN features \ required_features :
        required_features' = required_features \cup {key}
    /\ UNCHANGED <<features, build_out, lookupVars, splitVars, builderVars,
                   classVars, textVars>>

Build ==
    /\ Running
    /\ IsNone(build_out)
    /\ LET r == AllLookups_build(features, required_features)
       IN IF r.ok
          THEN /\ build_out' = Some(r)
               /\ op' = "build"
               /\ ret' = <<r.gsub, r.gpos>>
               /\ UNCHANGED <<current, current_name, gpos, gsub, named, panic,
                              started_kind, started_since_name, ctx_pushed,
                              next_serial, finished>>
          ELSE /\ Abort(r.msg, "build")
               /\ UNCHANGED build_out
    /\ UNCHANGED <<features, required_features, splitVars, builderVars, classVars, textVars>>

NextBuild ==
    \/ StartPlainLookup(MaxBuildLookups)
    \/ FinishCurrent
    \/ AddFeatureLookup
    \/ RequireFeature
    \/ Build

SpecBuild == Init /\ [][NextBuild]_vars

----------------------------------------------------------------------------
(* A ClassDefBuilder2 alone: classes the caller checked with can_add are   *)
(* added, then build                                                       *)

ClassGlyphs == 1..MaxGlyph

GlyphClasses == UNION {[1..k -> ClassGlyphs] : k \in 0..MaxClassLen}

CdbAdd ==
    /\ IsNone(cdb_out)
    /\ \E cls \in GlyphClasses :
        /\ can_add(cdb, cls)
        /\ cdb' = ClassDefBuilder2_add(cdb, cls)
    /\ UNCHANGED <<cdb_out, lookupVars, splitVars, builderVars, buildVars, textVars>>

\* build consumes the builder
CdbBuild ==
    /\ IsNone(cdb_out)
    /\ \E r \in ClassDefBuilder2_build(cdb) : cdb_out' = Some(r)
    /\ UNCHANGED <<cdb, lookupVars, splitVars, builderVars, buildVars, textVars>>

InitClassDefs ==
    /\ InitLookups
    /\ split_in = <<>>
    /\ split_out = None
    /\ InitBuilder(<<>>)
    /\ InitFeatures
    /\ \E use_class_0 \in BOOLEAN : InitClassDef(use_class_0)
    /\ InitLexer(<<>>)
    /\ InitSink(<<>>, None)

NextClassDef ==
    \/ CdbAdd
    \/ CdbBuild

SpecClassDef == InitClassDefs /\ [][NextClassDef]_vars

----------------------------------------------------------------------------
(* A Lexer alone: next_token is called again and again on one input        *)

\* the inputs: at most MaxPieces pieces, each one byte or the keyword
LexPieces == {<<EOF>>, <<NL>>, <<QUOTE>>, <<HASH>>, <<ZERO>>, <<BACKSLASH>>,
              <<LOWER_X>>, <<98>>, SUB}

RECURSIVE LexInputs(_)
LexInputs(n) ==
    IF n = 0 THEN {<<>>}
    ELSE LexInputs(n - 1) \cup {p \o i : p \in LexPieces, i \in LexInputs(n - 1)}

AtEnd == lexer.pos >= Len(lex_input)

\* the calls stop MaxEofCalls calls after the one that reached the end
NextToken ==
    /\ ~lex_hung
    /\ Len(lex_tokens) < Len(lex_input) + MaxEofCalls
    /\ LET r == next_token(lexer)
       IN /\ lexer' = r.l
          /\ lex_hung' = ~r.returns
          /\ lex_tokens' = IF r.returns
                           THEN Append(lex_tokens,
                                       [start |-> lexer.pos, len |-> r.token.len,
                                        kind |-> r.token.kind])
                           ELSE lex_tokens
    /\ UNCHANGED <<lex_input, sinkVars>>
    /\ UNCHANGED <<lookupVars, splitVars, builderVars, buildVars, classVars>>

InitLex ==
    /\ InitLookups
    /\ split_in = <<>>
    /\ split_out = None
    /\ InitBuilder(<<>>)
    /\ InitFeatures
    /\ InitClassDef(FALSE)
    /\ \E input \in LexInputs(MaxPieces) : InitLexer(input)
    /\ InitSink(<<>>, None)

SpecLex == InitLex /\ [][NextToken]_vars

(* The lexer on inputs made of the bytes of numbers: '0', '1', 'x', 'X',   *)
(* 'b' and '.'                                                             *)

NumBytes == {ZERO, 49, LOWER_X, 88, 98, 46}

RECURSIVE NumInputs(_)
NumInputs(n) ==
    IF n = 0 THEN {<<>>}
    ELSE NumInputs(n - 1) \cup {<<b>> \o i : b \in NumBytes, i \in NumInputs(n - 1)}

InitNum ==
    /\ InitLookups
    /\ split_in = <<>>
    /\ split_out = None
    /\ InitBuilder(<<>>)
    /\ InitFeatures
    /\ InitClassDef(FALSE)
    /\ \E input \in NumInputs(MaxPieces) : InitLexer(input)
    /\ InitSink(<<>>, None)

SpecNum == InitNum /\ [][NextToken]_vars

----------------------------------------------------------------------------
(* An AstSink alone: the calls a parser makes, in any order                *)

SinkBytes == {97, HYPHEN}

RECURSIVE Texts(_)
Texts(n) ==
    IF n = 0 THEN {<<>>}
    ELSE Texts(n - 1) \cup {<<b>> \o t : b \in SinkBytes, t \in Texts(n - 1)}

\* the glyph maps of at most size names, each of at most len bytes
RECURSIVE GlyphMaps(_, _)
GlyphMaps(len, size) ==
    IF size = 0 THEN {{}}
    ELSE GlyphMaps(len, size - 1)
         \cup {m \cup {n} : m \in GlyphMaps(len, size - 1), n \in Texts(len) \ {<<>>}}

SinkRunning == IsNone(sink_out)

RECURSIVE CountNodes(_)
CountNodes(items) ==
    IF items = <<>> THEN 0
    ELSE (IF IsToken(items[1]) THEN 0 ELSE 1 + CountNodes(items[1].children))
         + CountNodes(Tail(items))

\* the item the last push added to the builder
LastItem(b) == b.children[Len(b.children)]

\* an item was pushed: it is booked on the innermost open node
Pushed(items, item) ==
    IF items = <<>> THEN items
    ELSE [items EXCEPT ![Len(items)] = Append(@, item)]

\* an error was reported: it is booked on the innermost open node
Reported(diag) ==
    IF diag = <<>> THEN diag ELSE [diag EXCEPT ![Len(diag)] = TRUE]

UnchangedBySink ==
    UNCHANGED <<lexVars, lookupVars, splitVars, builderVars, buildVars, classVars>>

SinkStartNode ==
    /\ SinkRunning
    /\ Len(sink.builder.parents) + CountNodes(sink.builder.children) < MaxNodes
    /\ \E kind \in {"GlyphClass"} :
        sink' = AstSink_start_node(sink, kind)
    /\ sink_diag' = Append(sink_diag, FALSE)
    /\ sink_items' = Append(sink_items, <<>>)
    /\ sink_op' = "start_node"
    /\ UNCHANGED sink_out
    /\ UnchangedBySink

SinkToken ==
    /\ SinkRunning
    /\ \E kind \in {"GlyphNameOrRange"},
          len \in 1..(Len(sink.text) - sink.text_pos) :
        sink' = AstSink_token(sink, kind, len)
    /\ sink_diag' = IF Len(sink'.errors) > Len(sink.errors)
                    THEN Reported(sink_diag) ELSE sink_diag
    /\ sink_items' = Pushed(sink_items, LastItem(sink'.builder))
    /\ sink_op' = "token"
    /\ UNCHANGED sink_out
    /\ UnchangedBySink

SinkError ==
    /\ SinkRunning
    /\ Len(sink.errors) < MaxErrors
    /\ sink' = AstSink_error(sink, [message |-> [what |-> "syntax"],
                                    range |-> <<sink.text_pos, sink.text_pos>>])
    /\ sink_diag' = Reported(sink_diag)
    /\ UNCHANGED sink_items
    /\ sink_op' = "error"
    /\ UNCHANGED sink_out
    /\ UnchangedBySink

\* finish_node pops a parent, and panics when there is none
SinkFinishNode ==
    /\ SinkRunning
    /\ sink_op' = "finish_node"
    /\ IF sink.builder.parents = <<>>
       THEN /\ sink_out' = Some([ok |-> FALSE, panic |-> "unwrap on None"])
            /\ UNCHANGED <<sink, sink_diag, sink_items>>
       ELSE /\ sink' = AstSink_finish_node(sink)
            /\ sink_diag' = SubSeq(sink_diag, 1, Len(sink_diag) - 1)
            /\ sink_items' = Pushed(SubSeq(sink_items, 1, Len(sink_items) - 1),
                                    LastItem(sink'.builder))
            /\ UNCHANGED sink_out
    /\ UnchangedBySink

\* finish consumes the sink
SinkFinish ==
    /\ SinkRunning
    /\ sink_out' = Some(TreeBuilder_finish(sink.builder))
    /\ sink_op' = "finish"
    /\ UNCHANGED <<sink, sink_diag, sink_items>>
    /\ UnchangedBySink

InitOthers ==
    /\ InitLookups
    /\ split_in = <<>>
    /\ split_out = None
    /\ InitBuilder(<<>>)
    /\ InitFeatures
    /\ InitClassDef(FALSE)
    /\ InitLexer(<<>>)

InitSinks ==
    /\ InitOthers
    /\ \E text \in Texts(MaxSinkLen),
          glyph_map \in {None} \cup {Some(m) : m \in GlyphMaps(1, 1)} :
        InitSink(text, glyph_map)

NextSink ==
    \/ SinkStartNode
    \/ SinkToken
    \/ SinkError
    \/ SinkFinishNode
    \/ SinkFinish

SpecSink == InitSinks /\ [][NextSink]_vars

(* One glyph-name-or-range token that is the whole text, on every text and *)
(* every glyph map of the bounds                                           *)

SinkTokenWhole ==
    /\ SinkRunning
    /\ sink.text_pos = 0
    /\ sink.text # <<>>
    /\ sink.builder.children = <<>>
    /\ sink' = AstSink_token(sink, "GlyphNameOrRange", Len(sink.text))
    /\ sink_diag' = sink_diag
    /\ sink_items' = sink_items
    /\ sink_op' = "token"
    /\ UNCHANGED sink_out
    /\ UnchangedBySink

InitRange ==
    /\ InitOthers
    /\ \E text \in Texts(MaxTextLen),
          glyph_map \in GlyphMaps(MaxTextLen - 2, MaxMapSize) :
        InitSink(text, Some(glyph_map))

SpecRange == InitRange /\ [][SinkTokenWhole]_vars

----------------------------------------------------------------------------
(* Properties *)

\* the raw indices of a list of non-Empty ids
IdxOf(ids) == [i \in DOMAIN ids |-> ids[i].idx]

\* every index of the slice fits a u16
FitsU16(ids) == \A i \in DOMAIN ids : ids[i] # Empty => ids[i].idx <= U16_MAX

\* the nested lookup ids of a built contextual lookup, subtable by subtable
NestedIds(l) == Flatten([s \in DOMAIN l.subtables |-> iter_lookups(l.subtables[s])])

IsContextualVariant(l) == l.variant \in {"Contextual", "ChainedContextual"}

\* C1: for a slice whose indices all fit a u16, split_lookups returns, without
\* aborting, the indices of the Gpos elements in order and the indices of the
\* Gsub elements in order; Empty elements go to neither list and do not make
\* it abort
C1_SplitPartitions ==
    (IsSome(split_out) /\ FitsU16(split_in)) =>
        LET out == Unwrap(split_out)
        IN /\ out.ok
           /\ out.gpos = IdxOf(SelectSeq(split_in, IsGpos))
           /\ out.gsub = IdxOf(SelectSeq(split_in, IsGsub))

\* C2: an insert_aalt_lookups call that prepends n lookups rewrites every
\* nested Gsub(k) of every subtable of every contextual GSUB lookup to
\* Gsub(k + n), which is the lookup Gsub(k) was before the call, and leaves
\* every nested Gpos and Empty id as it was
C2_AaltBumpsNestedIds ==
    [][op' = "insert_aalt_lookups" =>
        LET n == Len(gsub') - Len(gsub)
        IN \A i \in DOMAIN gsub : IsContextualVariant(gsub[i]) =>
            LET old == NestedIds(gsub[i])
                new == NestedIds(gsub'[i + n])
            IN /\ Len(new) = Len(old)
               /\ \A q \in DOMAIN old :
                    IF IsGsub(old[q])
                    THEN /\ new[q] = Gsub(old[q].idx + n)
                         /\ old[q].idx < Len(gsub) =>
                                gsub'[new[q].idx + 1].serial = gsub[old[q].idx + 1].serial
                    ELSE new[q] = old[q]]_vars

\* a contextual GSUB lookup that names a GSUB lookup and a GPOS lookup, after
\* an aalt pass that prepended a lookup
C2_Witness ==
    /\ op = "insert_aalt_lookups"
    /\ Len(ret) >= 1
    /\ \E i \in DOMAIN gsub :
        /\ IsContextualVariant(gsub[i])
        /\ \E q \in DOMAIN NestedIds(gsub[i]) :
                IsGsub(NestedIds(gsub[i])[q]) /\ NestedIds(gsub[i])[q].idx >= Len(ret)

\* C3: whatever the sequence of start_lookup, add_subtable_break,
\* finish_current and insert_aalt_lookups calls, the root_id of a contextual
\* lookup is the id of the position it is pushed at: the assertion of push
\* never fails
C3_RootIdAssertNeverFails == panic # RootAssert

\* the id of the next position of the vector a lookup goes to
NextIdOf(sl) ==
    IF sl.some \in {"GposLookup", "GposContextual"} THEN Gpos(Len(gpos)) ELSE Gsub(Len(gsub))

C5_NeedsNewLookupOfStartedKind ==
    Running =>
        /\ \A k \in Kinds :
                needs_new_lookup(k) = (IsNone(current) \/ started_kind # Some(k))
        /\ op = "start_lookup" => ~needs_new_lookup(Unwrap(started_kind))

IsPrefix(s, t) == Len(s) <= Len(t) /\ \A i \in DOMAIN s : t[i] = s[i]

SerialsOf(ls) == [i \in DOMAIN ls |-> ls[i].serial]

\* the finish order, restricted to the lookups of a vector
FinishOrderOf(ls) ==
    SelectSeq(finished, LAMBDA x : \E i \in DOMAIN ls : ls[i].serial = x)

\* the lookups of each vector are in their finish order, and nothing else
\* was finished
InFinishOrder ==
    /\ SerialsOf(gpos) = FinishOrderOf(gpos)
    /\ SerialsOf(gsub) = FinishOrderOf(gsub)
    /\ Len(finished) = Len(gpos) + Len(gsub)

\* C6: without an aalt pass, every call leaves each lookup of the GPOS and
\* GSUB vectors at its index with its contents, adding lookups only at the
\* end, and the lookups of a vector are in the order they were finished in
C6_VectorsOnlyAppend ==
    [][/\ IsPrefix(gpos, gpos')
       /\ IsPrefix(gsub, gsub')
       /\ InFinishOrder']_vars

\* two GSUB lookups and a GPOS lookup have been finished, GSUB first and last
C6_Witness ==
    /\ Len(gsub) = 2 /\ Len(gpos) = 1
    /\ finished = <<gsub[1].serial, gpos[1].serial, gsub[2].serial>>

\* the vector a current lookup goes to, before and after a step
VecOf(sl, gp, gs) == IF sl.some \in {"GposLookup", "GposContextual"} THEN gp ELSE gs

\* a step pushes the current contextual lookup: the root goes to the end of
\* its vector, at r, the anonymous lookups to r+1..r+m in creation order, the
\* id r is returned, and a lookup the same call starts for the table gets r+m+1
PushLayout ==
    (/\ IsSome(current) /\ IsContextual(Unwrap(current))
     /\ op' \in {"start_lookup", "finish_current"} /\ panic' = "none") =>
        LET b == Unwrap(current).lookup
            m == Len(b.anon_lookups)
            old == VecOf(Unwrap(current), gpos, gsub)
            new == VecOf(Unwrap(current), gpos', gsub')
            r == Len(old)
            id == NextIdOf(Unwrap(current))
        IN /\ Len(new) = r + m + 1
           /\ IsPrefix(old, new)
           /\ new[r + 1].serial = b.serial
           /\ IsContextualVariant(new[r + 1])
           /\ new[r + 1].subtables = b.subtables
           /\ \A j \in 1..m : new[r + 1 + j] = b.anon_lookups[j]
           /\ \A j \in 1..(m - 1) : b.anon_lookups[j].serial < b.anon_lookups[j + 1].serial
           /\ id.idx = r
           /\ op' = "finish_current" => ret'[1][1] = id
           /\ op' = "start_lookup" =>
                /\ ret' = Some(id)
                /\ TableOf(Unwrap(current')) = TableOf(Unwrap(current)) =>
                        NextIdOf(Unwrap(current))' = [id EXCEPT !.idx = r + m + 1]
                /\ (/\ IsContextual(Unwrap(current'))
                    /\ TableOf(Unwrap(current')) = TableOf(Unwrap(current))) =>
                        Unwrap(current').lookup.root_id = [id EXCEPT !.idx = r + m + 1]

\* a step starts a lookup for a table whose last started lookup was a
\* contextual one, pushed by a finish_current
StartsNextAfterCtx ==
    /\ op' = "start_lookup" /\ panic' = "none"
    /\ IsSome(ctx_pushed[TableOf(Unwrap(current'))])

\* the index of the lookup of a serial in a vector
IndexOfSerial(vec, serial) == (CHOOSE i \in DOMAIN vec : vec[i].serial = serial) - 1

\* C7: a contextual lookup with m anonymous lookups pushed at root index r
\* has its root at r and its anonymous lookups at r+1..r+m in creation
\* order, the push returns the id r, and the next lookup started for that
\* table, by the same call or a later one, gets the id r+m+1
C7_ContextualPushLayout ==
    [][/\ PushLayout
       /\ StartsNextAfterCtx =>
            LET p == Unwrap(ctx_pushed[TableOf(Unwrap(current'))])
            IN NextIdOf(Unwrap(current))'.idx = p.r + p.m + 1]_vars

\* C7 (amended): the layout and the returned id as in C7; the next lookup
\* started for that table gets the id one past the last anonymous lookup:
\* r+m+1 when no aalt pass has prepended lookups to the vector since the
\* push, and r+n+m+1 after an aalt pass that prepended n GSUB lookups
C7_ContextualPushLayoutUpToAalt ==
    [][/\ PushLayout
       /\ StartsNextAfterCtx =>
            LET table == TableOf(Unwrap(current'))
                p == Unwrap(ctx_pushed[table])
                vec == IF table = "Gpos" THEN gpos' ELSE gsub'
                root == IndexOfSerial(vec, p.serial)
                since == Len(SelectSeq(AaltLookups, LAMBDA l : l.serial > p.serial))
            IN /\ NextIdOf(Unwrap(current))'.idx = root + p.m + 1
               /\ root = p.r + (IF table = "Gsub" THEN since ELSE 0)]_vars

\* a contextual GSUB lookup with one anonymous lookup was pushed at 0, an
\* aalt pass prepended a lookup, and the contextual GSUB lookup started next
\* got the id 3
C7_Witness ==
    /\ op = "start_lookup"
    /\ Len(gsub) = 3
    /\ gsub[1].variant = "Alternate"
    /\ IsContextualVariant(gsub[2]) /\ gsub[3].variant = "Single"
    /\ finished = <<gsub[2].serial, gsub[3].serial>>
    /\ IsSome(current) /\ IsContextual(Unwrap(current))
    /\ Unwrap(current).lookup.root_id = Gsub(3)

\* the step is the call insert_aalt_lookups(all_alts)
AaltCall(all_alts) ==
    /\ op' = "insert_aalt_lookups"
    /\ LET new == aalt_new_lookups(all_alts, next_serial)
       IN /\ Len(ret') = Len(new)
          /\ Len(gsub') = Len(new) + Len(gsub)
          /\ \A i \in DOMAIN new :
                \E j \in DOMAIN gsub' :
                    gsub'[j].serial = new[i].serial /\ gsub'[j].variant = new[i].variant
    /\ insert_aalt_lookups(all_alts)

\* C8: an insert_aalt_lookups call that prepends n lookups leaves the GSUB
\* vector as the n new lookups followed by the previous lookups in their
\* order, returns Gsub(0), ..., Gsub(n-1) and leaves the GPOS vector alone;
\* with an empty alternates map n = 0, it returns the empty list and the
\* GSUB vector, nested ids included, is as before
C8_AaltPrepends ==
    [][\A all_alts \in AltMaps :
        AaltCall(all_alts) =>
        LET n == Len(ret')
        IN /\ n \in 0..2
           /\ Len(gsub') = n + Len(gsub)
           /\ ret' = [i \in 1..n |-> Gsub(i - 1)]
           /\ gpos' = gpos
           /\ \A i \in DOMAIN gsub :
                /\ gsub'[n + i].serial = gsub[i].serial
                /\ gsub'[n + i].variant = gsub[i].variant
                /\ gsub'[n + i].flags = gsub[i].flags
                /\ gsub'[n + i].mark_set = gsub[i].mark_set
                /\ ~IsContextualVariant(gsub[i]) => gsub'[n + i] = gsub[i]
           /\ \A i \in 1..n :
                /\ gsub'[i].serial >= next_serial
                /\ gsub'[i].variant \in {"Single", "Alternate"}
           /\ DOMAIN all_alts = {} => (n = 0 /\ ret' = <<>> /\ gsub' = gsub)]_vars

\* an aalt pass put two lookups in front of a contextual GSUB lookup and the
\* plain GSUB lookup finished after it
C8_Witness ==
    /\ op = "insert_aalt_lookups"
    /\ ret = <<Gsub(0), Gsub(1)>>
    /\ Len(gsub) = 4
    /\ gsub[1].serial > gsub[4].serial /\ gsub[2].serial > gsub[4].serial
    /\ gsub[3].serial < gsub[4].serial
    /\ IsContextualVariant(gsub[3])

\* C9: insert_aalt_lookups puts every target with one alternate in the
\* prepended SingleSub lookup; every target of the prepended AlternateSub
\* lookup has two or more alternates; each of the two is built only if it got
\* a target, and when both are built SingleSub is at 0 and AlternateSub at 1
C9_AaltPartition ==
    [][\A all_alts \in AltMaps :
        AaltCall(all_alts) =>
        LET n == Len(ret')
        IN /\ \A t \in DOMAIN all_alts : Len(all_alts[t]) = 1 =>
                \E i \in 1..n :
                    /\ gsub'[i].variant = "Single"
                    /\ t \in DOMAIN gsub'[i].subtables[1]
                    /\ gsub'[i].subtables[1][t] = all_alts[t][1]
           /\ \A i \in 1..n : gsub'[i].variant = "Alternate" =>
                \A t \in DOMAIN gsub'[i].subtables[1] :
                    Len(gsub'[i].subtables[1][t]) >= 2
           /\ \A i \in 1..n : DOMAIN gsub'[i].subtables[1] # {}
           /\ n = 2 => (gsub'[1].variant = "Single" /\ gsub'[2].variant = "Alternate")]_vars

HasChainRule(l) ==
    \E s \in DOMAIN l.subtables : \E r \in DOMAIN l.subtables[s] :
        is_chain_rule(l.subtables[s][r])

\* C10: every contextual lookup in the GSUB or GPOS vector is of the
\* ChainedContextual variant, none of the Contextual variant
C10_AlwaysChainingForm ==
    /\ \A i \in DOMAIN gpos : gpos[i].variant # "Contextual"
    /\ \A i \in DOMAIN gsub : gsub[i].variant # "Contextual"

NoPlainContextualGpos == \A i \in DOMAIN gpos : gpos[i].variant # "Contextual"

\* the variant of each contextual GSUB lookup tells if a rule of it has
\* backtrack or lookahead
GsubFormByRules ==
    \A i \in DOMAIN gsub : IsContextualVariant(gsub[i]) =>
        (gsub[i].variant = "ChainedContextual") = HasChainRule(gsub[i])

\* C10 (amended): a pushed GPOS contextual lookup is stored as
\* ChainedContextual whether or not a rule of it has backtrack or lookahead,
\* and no Contextual lookup is ever in the GPOS vector; a pushed GSUB
\* contextual lookup is stored as ChainedContextual when a rule of it has
\* backtrack or lookahead and as Contextual when none has
C10_ChainingFormByTable ==
    [][/\ NoPlainContextualGpos'
       /\ GsubFormByRules'
       /\ (/\ IsSome(current) /\ IsContextual(Unwrap(current))
           /\ op' \in {"start_lookup", "finish_current"} /\ panic' = "none") =>
            LET sl == Unwrap(current)
                root == VecOf(sl, gpos', gsub')[Len(VecOf(sl, gpos, gsub)) + 1]
            IN /\ root.serial = sl.lookup.serial
               /\ root.variant =
                    IF sl.some = "GposContextual" \/ HasChainRule(sl.lookup)
                    THEN "ChainedContextual" ELSE "Contextual"]_vars

\* in the vectors: a GPOS contextual lookup without backtrack or lookahead, as
\* ChainedContextual; a GSUB one with a backtrack, as ChainedContextual
C10_Witness ==
    /\ \E i \in DOMAIN gpos :
        gpos[i].variant = "ChainedContextual" /\ ~HasChainRule(gpos[i])
    /\ \E i \in DOMAIN gsub :
        gsub[i].variant = "ChainedContextual" /\ HasChainRule(gsub[i])

\* C11: start_lookup(kind, flags) returns None exactly when there was no
\* current lookup, and else pushes the current lookup and returns the id it
\* was pushed under; the new current lookup is of the requested kind, has the
\* given flags and mark filter set and one empty subtable; the pending name
\* and the name map are as before
C11_StartLookup ==
    [][(op' = "start_lookup" /\ panic' = "none") =>
        /\ (ret' = None) = IsNone(current)
        /\ IsSome(current) =>
            LET id == NextIdOf(Unwrap(current))
                vec == VecOf(Unwrap(current), gpos', gsub')
            IN /\ ret' = Some(id)
               /\ Len(vec) > id.idx
               /\ vec[id.idx + 1].serial = Unwrap(current).lookup.serial
        /\ IsSome(current')
        /\ SomeLookup_kind(Unwrap(current')) = Unwrap(started_kind')
        /\ \E flags \in FlagInfos :
            /\ Unwrap(current').lookup.flags = flags.flags
            /\ Unwrap(current').lookup.mark_set = flags.mark_filter_set
        /\ Unwrap(current').lookup.subtables = <<DefaultSubtable>>
        /\ current_name' = current_name
        /\ named' = named]_vars

\* C12: add_subtable_break returns true exactly when there is a current
\* lookup, which then has one more subtable, empty and at the end, the
\* earlier ones as before; with no current lookup it returns false and the
\* vectors, the name map and the pending name are as before
C12_SubtableBreak ==
    [][op' = "add_subtable_break" =>
        /\ ret' = IsSome(current)
        /\ gpos' = gpos /\ gsub' = gsub /\ named' = named
        /\ current_name' = current_name
        /\ IF IsSome(current)
           THEN LET old == Unwrap(current).lookup.subtables
                    new == Unwrap(current').lookup.subtables
                IN /\ Len(new) = Len(old) + 1
                   /\ new[Len(new)] = DefaultSubtable
                   /\ IsPrefix(old, new)
                   /\ Unwrap(current') =
                        [Unwrap(current) EXCEPT !.lookup.subtables = new]
           ELSE current' = current]_vars

\* a break after the first rule of the current contextual lookup
C12_Witness ==
    /\ op = "add_subtable_break" /\ ret = TRUE
    /\ IsSome(current) /\ IsContextual(Unwrap(current))
    /\ Len(Unwrap(current).lookup.subtables) = 2
    /\ Len(Unwrap(current).lookup.subtables[1]) = 1
    /\ Unwrap(current).lookup.subtables[2] = DefaultSubtable

\* C14: in every state reached by start_named, start_lookup,
\* add_subtable_break and finish_current the name map is injective on the
\* ids that are not Empty: no two distinct names are bound to the same
\* Gpos(i) or the same Gsub(i).
C14_NamedInjective ==
    \A n1 \in DOMAIN named, n2 \in DOMAIN named :
        (n1 # n2 /\ named[n1] # Empty) => named[n1] # named[n2]

\* both names bound, by finish_current, to lookups of the same table
C14_Witness ==
    /\ DOMAIN named = Names
    /\ \A n \in Names : IsGpos(named[n])
    /\ op = "finish_current"

\* C13: every rule-insertion entrypoint of the current lookup, called while
\* the current lookup is of another kind than the one it expects, aborts
\* compilation: none of them returns normally after a mismatch.
C13_MismatchAborts ==
    [][\A name \in RuleEntrypoints \cup
                   {"add_contextual_rule", "as_gsub_contextual", "as_gpos_contextual"} :
            (op' = name /\ IsSome(current) /\ ~Expects(name, Unwrap(current)))
                => panic' # "none"]_vars

\* C15: within one PosSubBuilder, after any sequence of add calls, two added
\* features have the same feature index if and only if they have the same
\* feature tag and the same ordered list of lookup indices, and the index of
\* a feature never changes once it is assigned.
C15_FeatureIndex ==
    [][/\ \A a \in psb_added', b \in psb_added' :
            (a.idx = b.idx) <=> (a.feature = b.feature /\ a.lookups = b.lookups)
       /\ \A a \in psb_added' :
            /\ <<a.feature, a.lookups>> \in DOMAIN psb'.features
            /\ psb'.features[<<a.feature, a.lookups>>] = a.idx
       /\ \A k \in DOMAIN psb.features :
            k \in DOMAIN psb'.features /\ psb'.features[k] = psb.features[k]]_vars

\* a third add call gets index 0 again, for the tag and list of the first,
\* after index 1 went to the same tag with another list
C15_Witness ==
    /\ PsbCalls = 3
    /\ Cardinality(psb_added) = 2
    /\ \E a \in psb_added, b \in psb_added :
        /\ a.feature = b.feature /\ a.lookups # b.lookups
        /\ a.idx = 0 /\ b.idx = 1
    /\ Unwrap(psb_last).idx = 0

\* the tags of a list of records are strictly ascending
StrictlyAscending(tags) ==
    \A i \in DOMAIN tags : \A j \in DOMAIN tags : i < j => TagLess(tags[i], tags[j])

\* C16: in the built table the script records are in strictly ascending
\* script-tag order whatever the order of the add calls; within each script
\* the LangSys added under the language tag dflt, if any, is the
\* default-lang-sys and is not among the language records, and every other
\* language is a language record, in strictly ascending language-tag order.
C16_ScriptOrder ==
    (IsSome(psb_out) /\ IsSome(Unwrap(psb_out))) =>
        LET list == Unwrap(Unwrap(psb_out)).script_list
        IN /\ StrictlyAscending([i \in DOMAIN list |-> list[i].script_tag])
           /\ {list[i].script_tag : i \in DOMAIN list} = DOMAIN psb.scripts
           /\ \A i \in DOMAIN list :
                LET entry == psb.scripts[list[i].script_tag]
                    recs == list[i].script.lang_sys_records
                IN /\ IF LANG_DFLT \in DOMAIN entry
                      THEN list[i].script.default_lang_sys = Some(entry[LANG_DFLT])
                      ELSE list[i].script.default_lang_sys = None
                   /\ StrictlyAscending([r \in DOMAIN recs |-> recs[r].lang_sys_tag])
                   /\ {recs[r].lang_sys_tag : r \in DOMAIN recs} = DOMAIN entry \ {LANG_DFLT}
                   /\ \A r \in DOMAIN recs : recs[r].lang_sys = entry[recs[r].lang_sys_tag]

\* a script built from three add calls: the language added first is the
\* second record, the one added second is the first, and dflt is the default
C16_Witness ==
    /\ IsSome(psb_out) /\ IsSome(Unwrap(psb_out))
    /\ LET list == Unwrap(Unwrap(psb_out)).script_list
       IN /\ Len(list) = 1
          /\ IsSome(list[1].script.default_lang_sys)
          /\ Len(list[1].script.lang_sys_records) = 2
          /\ list[1].script.lang_sys_records[1].lang_sys.feature_indices = <<1>>
          /\ list[1].script.lang_sys_records[2].lang_sys.feature_indices = <<0>>

\* the LangSys of (script, language) in a builder; the default one if none
\* was entered yet
LangSysOf(b, script, language) ==
    IF script \in DOMAIN b.scripts /\ language \in DOMAIN b.scripts[script]
    THEN b.scripts[script][language]
    ELSE LangSys_default

\* C17: add(key, lookups, required) with required = true stores the index of
\* the feature in the required-feature slot of the LangSys of (key.script,
\* key.language) and does not append it to the feature list of that LangSys;
\* with required = false it appends the index at the end of the feature list
\* and leaves the required slot unchanged; no other LangSys is modified.
C17_RequiredSlot ==
    [][(IsSome(psb_last') /\ PsbCalls' = PsbCalls + 1) =>
        LET a == Unwrap(psb_last')
            old == LangSysOf(psb, a.key.script, a.key.language)
            new == LangSysOf(psb', a.key.script, a.key.language)
        IN /\ a.key.script \in DOMAIN psb'.scripts
           /\ a.key.language \in DOMAIN psb'.scripts[a.key.script]
           /\ a.required =>
                /\ new.required_feature_index = a.idx
                /\ new.feature_indices = old.feature_indices
           /\ ~a.required =>
                /\ new.feature_indices = Append(old.feature_indices, a.idx)
                /\ new.required_feature_index = old.required_feature_index
           /\ \A ls \in PsbLangSystems :
                ls # <<a.key.script, a.key.language>> =>
                    /\ LangSysOf(psb', ls[1], ls[2]) = LangSysOf(psb, ls[1], ls[2])
                    /\ (ls[1] \in DOMAIN psb'.scripts /\ ls[2] \in DOMAIN psb'.scripts[ls[1]])
                        => (ls[1] \in DOMAIN psb.scripts /\ ls[2] \in DOMAIN psb.scripts[ls[1]])
           /\ DOMAIN psb.scripts \subseteq DOMAIN psb'.scripts
           /\ \A sc \in DOMAIN psb.scripts :
                DOMAIN psb.scripts[sc] \subseteq DOMAIN psb'.scripts[sc]]_vars

\* a required feature added to a LangSys that has a feature in its list: its
\* index is in the required slot and the list is as it was
C17_Witness ==
    /\ IsSome(psb_last) /\ Unwrap(psb_last).required
    /\ Unwrap(psb_last).idx = 1
    /\ LET a == Unwrap(psb_last)
           ls == LangSysOf(psb, a.key.script, a.key.language)
       IN /\ ls.required_feature_index = 1
          /\ ls.feature_indices = <<0>>

\* the add calls made for a key on the builder of a table
AddsOf(table, key) ==
    SelectSeq(Unwrap(build_out).adds[table], LAMBDA a : a.key = key)

\* the raw indices of the ids of a table in a list, in the order of the list
Subset(ids, table) ==
    IdxOf(SelectSeq(ids, LAMBDA id : id.t = table))

Built == op = "build" /\ IsSome(build_out)

\* C18: build adds a feature whose tag is size to the GPOS builder with an
\* empty lookup list, whatever lookups it is bound to, and never to the GSUB
\* builder; every other feature is added to the GPOS builder iff its GPOS
\* subset is not empty and to the GSUB builder iff its GSUB subset is not
\* empty, both under the same script, language and feature tag.
C18_FeatureRouting ==
    Built =>
        /\ \A key \in DOMAIN features :
            LET required == key \in required_features
                add(lookups) == [key |-> key, lookups |-> lookups, required |-> required]
            IN IF key.feature = SIZE
               THEN /\ AddsOf("Gpos", key) = <<add(<<>>)>>
                    /\ AddsOf("Gsub", key) = <<>>
               ELSE \A table \in {"Gpos", "Gsub"} :
                        AddsOf(table, key) =
                            IF Subset(features[key], table) # <<>>
                            THEN <<add(Subset(features[key], table))>>
                            ELSE <<>>
        /\ \A table \in {"Gpos", "Gsub"} :
            \A i \in DOMAIN Unwrap(build_out).adds[table] :
                Unwrap(build_out).adds[table][i].key \in DOMAIN features

\* a size feature bound to a GSUB lookup and another feature bound to a GPOS
\* lookup, both built
C18_Witness ==
    /\ Built
    /\ \E k1 \in DOMAIN features, k2 \in DOMAIN features :
        /\ k1.feature = SIZE /\ features[k1] = <<Gsub(0)>>
        /\ k2.feature = KERN /\ features[k2] = <<Gpos(0)>>
    /\ Len(Unwrap(build_out).adds["Gpos"]) = 2
    /\ Unwrap(build_out).adds["Gsub"] = <<>>

\* C19: build yields no GSUB table exactly when the GSUB lookup vector is
\* empty and no feature was added to the GSUB builder, and no GPOS table
\* exactly when the GPOS lookup vector is empty and no feature was added to
\* the GPOS builder; otherwise the table has its lookups in vector order.
C19_TablePresence ==
    Built =>
        LET out == Unwrap(build_out)
            Holds(table, vec, adds) ==
                /\ (table = None) <=> (vec = <<>> /\ adds = <<>>)
                /\ IsSome(table) =>
                    /\ Len(Unwrap(table).lookup_list) = Len(vec)
                    /\ \A i \in DOMAIN vec :
                        Unwrap(table).lookup_list[i] = Lookup_build(vec[i])
                    /\ SerialsOf(Unwrap(table).lookup_list) = SerialsOf(vec)
        IN /\ Holds(out.gsub, gsub, out.adds["Gsub"])
           /\ Holds(out.gpos, gpos, out.adds["Gpos"])

\* a run with two GPOS lookups and no GSUB lookup, built with no feature
\* bound to GSUB: a GPOS table with the two lookups and no GSUB table
C19_Witness ==
    /\ Built
    /\ Len(gpos) = 2 /\ gsub = <<>>
    /\ Unwrap(build_out).gsub = None
    /\ IsSome(Unwrap(build_out).gpos)
    /\ Len(Unwrap(Unwrap(build_out).gpos).lookup_list) = 2

\* the smallest glyph id a class holds
MinGlyph(cls) == CHOOSE g \in GlyphsOf(cls) : \A h \in GlyphsOf(cls) : g <= h

\* C20: build gives the ids base, base+1, ..., base+n-1 (base 0 when class 0
\* is used, 1 when it is not) to the n distinct added classes in order of
\* decreasing class size, ties between classes of equal size broken by the
\* smallest glyph id the class holds, and every glyph of a class maps to the
\* id of that class in the class-def.
C20_ClassIds ==
    IsSome(cdb_out) =>
        LET mapping == Unwrap(cdb_out).mapping
            class_def == Unwrap(cdb_out).class_def
            base == IF cdb.use_class_0 THEN 0 ELSE 1
            n == Cardinality(cdb.classes)
        IN /\ DOMAIN mapping = cdb.classes
           /\ {mapping[cls] : cls \in cdb.classes} = base..(base + n - 1)
           /\ \A c1 \in cdb.classes, c2 \in cdb.classes :
                /\ Len(c1) > Len(c2) => mapping[c1] < mapping[c2]
                /\ (Len(c1) = Len(c2) /\ c1 # <<>> /\ c2 # <<>>
                        /\ MinGlyph(c1) < MinGlyph(c2)) => mapping[c1] < mapping[c2]
           /\ \A cls \in cdb.classes : \A gid \in GlyphsOf(cls) :
                gid \in DOMAIN class_def /\ class_def[gid] = mapping[cls]

\* two classes hold a glyph in common
SharesGlyph(c1, c2) == GlyphsOf(c1) \cap GlyphsOf(c2) # {}

\* C21: can_add(cls) is true exactly when cls is an added class or shares no
\* glyph with any added class; after add calls that each followed a true
\* can_add no glyph is in two distinct added classes, and the class-def that
\* is built maps every glyph to exactly one class id.
C21_CanAdd ==
    /\ \A cls \in GlyphClasses :
        can_add(cdb, cls) <=>
            (cls \in cdb.classes \/ \A c \in cdb.classes : ~SharesGlyph(cls, c))
    /\ \A c1 \in cdb.classes, c2 \in cdb.classes : c1 # c2 => ~SharesGlyph(c1, c2)
    /\ IsSome(cdb_out) =>
        LET out == Unwrap(cdb_out)
        IN /\ DOMAIN out.class_def = UNION {GlyphsOf(c) : c \in cdb.classes}
           /\ \A gid \in DOMAIN out.class_def :
                /\ Cardinality({out.mapping[c] : c \in {x \in cdb.classes : gid \in GlyphsOf(x)}}) = 1
                /\ \A c \in cdb.classes : gid \in GlyphsOf(c) => out.class_def[gid] = out.mapping[c]
           /\ Cardinality(ClassDefBuilder2_build(cdb)) = 1

\* two classes were added, a class that shares a glyph with one of them is
\* refused, and the class-def is built
C21_Witness ==
    /\ IsSome(cdb_out)
    /\ Cardinality(cdb.classes) = 2
    /\ <<1, 2>> \in cdb.classes
    /\ ~can_add(cdb, <<2, 1>>)
    /\ can_add(cdb, <<1, 2>>)


----------------------------------------------------------------------------
(* The lexer *)

RECURSIVE TokensLen(_)
TokensLen(toks) ==
    IF toks = <<>> THEN 0 ELSE toks[1].len + TokensLen(Tail(toks))

\* C22: the tokens next_token returned cover the input read so far with no gap
\* and no overlap: each token starts where the one before it ended (the first
\* at 0), a token that starts before the end of the input has length at least
\* 1, the lengths sum to the position of the lexer, which never passes the end,
\* and once the lexer is at the end they sum to the length of the input.
C22_Coverage ==
    /\ \A i \in 1..Len(lex_tokens) :
        /\ lex_tokens[i].start = TokensLen(SubSeq(lex_tokens, 1, i - 1))
        /\ lex_tokens[i].start < Len(lex_input) => lex_tokens[i].len >= 1
    /\ TokensLen(lex_tokens) = lexer.pos
    /\ lexer.pos <= Len(lex_input)
    /\ AtEnd => TokensLen(lex_tokens) = Len(lex_input)

\* the end-of-input token: the token of no length that starts at the end
IsEndToken(t) == t.start = Len(lex_input) /\ t.len = 0

\* C23: every call of next_token returns, and the calls reach the end-of-input
\* token after at most (input length + 1) calls: no call is made that never
\* returns, and once Len(lex_input) + 1 tokens were returned the end-of-input
\* token is among the first Len(lex_input) + 1 of them.
C23_Terminates ==
    /\ ~lex_hung
    /\ Len(lex_tokens) >= Len(lex_input) + 1 =>
        \E i \in 1..(Len(lex_input) + 1) : IsEndToken(lex_tokens[i])

\* where the line that holds the byte at pos ends: the position of the first
\* newline byte after pos, or the end of the input
LineEnd(pos) ==
    LET nls == {j \in (pos + 1)..(Len(lex_input) - 1) : lex_input[j + 1] = NL}
    IN IF nls = {} THEN Len(lex_input)
       ELSE CHOOSE j \in nls : \A k \in nls : j <= k

\* C24: a token that starts at a '#' byte has kind Comment and ends where the
\* line ends: before the next newline byte, or at the end of the input when
\* no newline follows.
C24_Comment ==
    \A i \in 1..Len(lex_tokens) :
        LET t == lex_tokens[i]
        IN (t.start < Len(lex_input) /\ lex_input[t.start + 1] = HASH) =>
            /\ t.kind = "Comment"
            /\ t.start + t.len = LineEnd(t.start)

TokenText(t) == SubSeq(lex_input, t.start + 1, t.start + t.len)

\* the first bytes that next_token hands to ident
StartsIdent(byte) ==
    /\ byte # EOF
    /\ ~is_ascii_whitespace(byte)
    /\ byte \notin {HASH, QUOTE, 64}
    /\ ~is_ascii_digit(byte)
    /\ byte \notin DOMAIN Punctuation

\* C25: at every call after_backslash is true exactly when the token returned
\* just before was a Backslash; an identifier-body token is an Ident when it
\* follows a Backslash, whatever its text, and otherwise has the keyword kind
\* of its text, or Ident when the text is no keyword; so a keyword that another
\* token separates from a backslash is a keyword.
C25_AfterBackslash ==
    /\ lexer.after_backslash <=>
            (lex_tokens # <<>> /\ lex_tokens[Len(lex_tokens)].kind = "Backslash")
    /\ \A i \in 1..Len(lex_tokens) :
        LET t == lex_tokens[i]
        IN (t.start < Len(lex_input) /\ StartsIdent(lex_input[t.start + 1])) =>
            IF i > 1 /\ lex_tokens[i - 1].kind = "Backslash"
            THEN t.kind = "Ident"
            ELSE IF TokenText(t) = SUB THEN t.kind = "SubKw"
            ELSE t.kind = "Ident"

\* the tokens of "\sub" newline "sub": the escaped keyword is an Ident, the
\* keyword after the whitespace is a keyword
C25_Witness ==
    /\ Len(lex_tokens) = 4
    /\ [i \in 1..4 |-> lex_tokens[i].kind] = <<"Backslash", "Ident", "Whitespace", "SubKw">>
    /\ TokenText(lex_tokens[2]) = SUB
    /\ TokenText(lex_tokens[4]) = SUB
    /\ ~lexer.after_backslash

\* the positions of the double quotes after the byte at pos
QuotesAfter(pos) ==
    {j \in (pos + 1)..(Len(lex_input) - 1) : lex_input[j + 1] = QUOTE}

\* C30: a token that starts at a double quote is a String that ends with the
\* next double quote when a double quote follows in the input, and is a
\* StringUnterminated that ends at the end of the input when none follows.
C30_String ==
    \A i \in 1..Len(lex_tokens) :
        LET t == lex_tokens[i]
            qs == QuotesAfter(t.start)
        IN (t.start < Len(lex_input) /\ lex_input[t.start + 1] = QUOTE) =>
            IF qs # {}
            THEN /\ t.kind = "String"
                 /\ t.start + t.len = (CHOOSE j \in qs : \A k \in qs : j <= k) + 1
            ELSE /\ t.kind = "StringUnterminated"
                 /\ t.start + t.len = Len(lex_input)

----------------------------------------------------------------------------
(* The tree sink *)

RECURSIVE ConcatText(_)
ConcatText(tokens) ==
    IF tokens = <<>> THEN <<>> ELSE tokens[1].text \o ConcatText(Tail(tokens))

\* C26: the texts of the tokens of the tree the sink built, in order, are the
\* source it was given the tokens of, byte for byte, with or without a glyph
\* map, a token rewritten into a GlyphRange node included.
C26_RoundTrip ==
    ConcatText(iter_tokens(sink.builder.children))
        = SubSeq(sink.text, 1, sink.text_pos)

\* the split points of a text both sides of which are names of the map: the
\* text before the hyphen and the text after it
ValidSplits(text, map) ==
    {idx \in 0..(Len(text) - 1) :
        /\ text[idx + 1] = HYPHEN
        /\ SubSeq(text, 1, idx) \in map
        /\ SubSeq(text, idx + 2, Len(text)) \in map}

\* C27: for a glyph-name-or-range text that is no name of the glyph map: with
\* no valid split the sink reports the 'neither' diagnostic and adds the
\* token as it is; with exactly one it adds a GlyphRange node of exactly the
\* three tokens head, '-', tail and reports nothing; with two or more it
\* reports the 'multiple' diagnostic and adds no node.
C27_SplitRange ==
    (sink_op = "token" /\ sink.text \notin Unwrap(sink.glyph_map)) =>
        LET text == sink.text
            splits == ValidSplits(text, Unwrap(sink.glyph_map))
            item == sink.builder.children[1]
        IN IF splits = {}
           THEN /\ item = Token_new("GlyphNameOrRange", text)
                /\ Len(sink.errors) = 1
                /\ sink.errors[1].message.what = "neither"
           ELSE IF Cardinality(splits) = 1
           THEN LET idx == CHOOSE i \in splits : TRUE
                IN /\ ~IsToken(item)
                   /\ item.kind = "GlyphRange"
                   /\ item.children =
                        <<Token_new("GlyphName", SubSeq(text, 1, idx)),
                          Token_new("Hyphen", <<HYPHEN>>),
                          Token_new("GlyphName", SubSeq(text, idx + 2, Len(text)))>>
                   /\ sink.errors = <<>>
           ELSE /\ item = Token_new("GlyphNameOrRange", text)
                /\ Len(sink.errors) = 1
                /\ sink.errors[1].message.what = "multiple"

\* C28: a finished node has its error flag set if and only if a diagnostic was
\* reported while it was the innermost open node: a diagnostic reported under
\* a node P sets the flag neither of a child started afterwards nor of an
\* ancestor of P.  Each finish_node that builds a node gives it the flag that
\* sink_diag holds for the node it closes.
C28_ErrorFlag ==
    [][(sink_op' = "finish_node" /\ Len(sink_diag') < Len(sink_diag)) =>
        sink'.builder.children[Len(sink'.builder.children)].error
            = sink_diag[Len(sink_diag)]]_vars

\* C29: finish returns a node only when the start_node and finish_node calls
\* were balanced and left exactly one top-level item, a node; it aborts when a
\* started node is still open, when there are several top-level items or
\* none, and when the one item is a token.
C29_Finish ==
    (sink_op = "finish" /\ IsSome(sink_out)) =>
        (Unwrap(sink_out).ok <=>
            /\ sink.builder.parents = <<>>
            /\ Len(sink.builder.children) = 1
            /\ ~IsToken(sink.builder.children[1]))

----------------------------------------------------------------------------
(* The lexer: numbers and the end of the input *)

\* the byte of the input at pos (from 0), EOF past the end
ByteAt(pos) == IF pos < Len(lex_input) THEN lex_input[pos + 1] ELSE EOF

\* the length of the longest run of decimal digits that starts at pos
RECURSIVE DecRun(_)
DecRun(pos) ==
    IF pos < Len(lex_input) /\ lex_input[pos + 1] \in 48..57
    THEN 1 + DecRun(pos + 1) ELSE 0

\* the length of the longest run of hex digits that starts at pos
RECURSIVE HexRun(_)
HexRun(pos) ==
    IF pos < Len(lex_input)
       /\ lex_input[pos + 1] \in (48..57) \cup (65..70) \cup (97..102)
    THEN 1 + HexRun(pos + 1) ELSE 0

\* C31: a token that starts with '0' and 'x' or 'X' is a NumberHex of the
\* prefix and the longest run of hex digits when a hex digit follows, and a
\* NumberHexEmpty of length 2 when none follows; any other token that starts
\* with a digit is a NumberFloat when its longest run of digits is followed by
\* a dot and decimal digits, and otherwise a NumberDec of exactly that run.
C31_Number ==
    \A i \in 1..Len(lex_tokens) :
        LET t == lex_tokens[i]
            s == t.start
            run == DecRun(s)
        IN (s < Len(lex_input) /\ lex_input[s + 1] \in 48..57) =>
            IF lex_input[s + 1] = ZERO /\ ByteAt(s + 1) \in {LOWER_X, 88}
            THEN IF HexRun(s + 2) >= 1
                 THEN t.kind = "NumberHex" /\ t.len = 2 + HexRun(s + 2)
                 ELSE t.kind = "NumberHexEmpty" /\ t.len = 2
            ELSE IF ByteAt(s + run) = 46 /\ DecRun(s + run + 1) >= 1
                 THEN /\ t.kind = "NumberFloat"
                      /\ t.len = run + 1 + DecRun(s + run + 1)
                 ELSE t.kind = "NumberDec" /\ t.len = run

\* C39: a token of kind Eof is returned only when the whole input is consumed
\* and has length 0, and every token returned after an Eof is an Eof: no byte
\* of the input is reported as the end of the input.
C39_Eof ==
    \A i \in 1..Len(lex_tokens) :
        lex_tokens[i].kind = "Eof" =>
            /\ lex_tokens[i].start = Len(lex_input)
            /\ lex_tokens[i].len = 0
            /\ \A j \in i..Len(lex_tokens) : lex_tokens[j].kind = "Eof"

----------------------------------------------------------------------------
(* The tree builder *)

\* a node as it was when it was pushed: not yet moved by a parent
Unmoved(item) == IF IsToken(item) THEN item ELSE [item EXCEPT !.rel_pos = 0]

\* the lengths and positions of a node, and of every node below it
RECURSIVE Measured(_)
Measured(item) ==
    IsToken(item) \/
        /\ item.text_len = SumTextLen(item.children)
        /\ \A i \in 1..Len(item.children) :
            /\ ~IsToken(item.children[i]) =>
                item.children[i].rel_pos = SumTextLen(SubSeq(item.children, 1, i - 1))
            /\ Measured(item.children[i])

\* C33: the children of a node built by finish_node are exactly the items
\* pushed at its level since the matching start_node, in push order; the text
\* length of every node of the tree is the sum of the text lengths of its
\* children, and the relative position of every child node is the sum of the
\* text lengths of the siblings before it.
C33_Children ==
    /\ [](\A i \in 1..Len(sink.builder.children) : Measured(sink.builder.children[i]))
    /\ [][(sink_op' = "finish_node" /\ Len(sink_items') < Len(sink_items)) =>
            LET node == LastItem(sink'.builder)
            IN /\ ~IsToken(node)
               /\ [i \in 1..Len(node.children) |-> Unmoved(node.children[i])]
                    = sink_items[Len(sink_items)]]_vars

\* a node was finished that holds a token and, after it, a node of its own
\* with a token
C33_Witness ==
    /\ sink_op = "finish_node"
    /\ sink.builder.parents = <<>>
    /\ Len(sink.builder.children) = 1
    /\ ~IsToken(sink.builder.children[1])
    /\ LET node == sink.builder.children[1]
       IN /\ Len(node.children) = 2
          /\ IsToken(node.children[1])
          /\ ~IsToken(node.children[2])
          /\ node.children[2].rel_pos = 1
          /\ node.children[2].text_len = 1
          /\ node.text_len = 2

----------------------------------------------------------------------------
(* The lookup compiler: frames of the closing calls *)

\* C38: after a finish_current that returned there is no current lookup and
\* no pending name, so needs_new_lookup is true for every kind; a
\* finish_current called with neither, a second finish_current included,
\* returns None and leaves both vectors and the name map as they were.
C38_FinishCurrent ==
    /\ []((op = "finish_current" /\ Running) =>
            /\ IsNone(current)
            /\ IsNone(current_name)
            /\ \A k \in Kinds : needs_new_lookup(k))
    /\ [][(/\ op' = "finish_current" /\ panic' = "none"
           /\ (op = "finish_current" \/ (IsNone(current) /\ IsNone(current_name)))) =>
            /\ ret' = None
            /\ gpos' = gpos
            /\ gsub' = gsub
            /\ named' = named]_vars

\* a named lookup was closed, and finish_current was called again
C38_Witness ==
    /\ op = "finish_current"
    /\ ret = None
    /\ Len(gpos) + Len(gsub) >= 1
    /\ DOMAIN named # {}

\* a step closes the current lookup: start_lookup or finish_current pushes it
\* and returns
ClosesCurrent ==
    /\ IsSome(current)
    /\ op' \in {"start_lookup", "finish_current"}
    /\ panic' = "none"

\* the id the closing call returns
ClosedId == IF op' = "start_lookup" THEN Unwrap(ret') ELSE Unwrap(ret')[1]

\* C37: closing a lookup of a GPOS kind appends only to the GPOS vector,
\* leaves the GSUB vector unchanged and returns a Gpos id; closing a lookup of
\* a GSUB kind appends only to the GSUB vector, leaves the GPOS vector
\* unchanged and returns a Gsub id; the returned id is the position at which
\* the closed lookup (for a contextual lookup, its root) sits in its vector
C37_PushFrame ==
    [][ClosesCurrent =>
        LET kind == Unwrap(started_kind)
            serial == Unwrap(current).lookup.serial
        IN /\ is_gpos_rule(kind) =>
                /\ gsub' = gsub
                /\ IsPrefix(gpos, gpos') /\ Len(gpos') > Len(gpos)
                /\ IsGpos(ClosedId)
                /\ ClosedId.idx + 1 \in DOMAIN gpos'
                /\ gpos'[ClosedId.idx + 1].serial = serial
                /\ \A i \in DOMAIN gpos' : gpos'[i].serial = serial => i = ClosedId.idx + 1
           /\ ~is_gpos_rule(kind) =>
                /\ gpos' = gpos
                /\ IsPrefix(gsub, gsub') /\ Len(gsub') > Len(gsub)
                /\ IsGsub(ClosedId)
                /\ ClosedId.idx + 1 \in DOMAIN gsub'
                /\ gsub'[ClosedId.idx + 1].serial = serial
                /\ \A i \in DOMAIN gsub' : gsub'[i].serial = serial => i = ClosedId.idx + 1
           /\ SomeLookup_kind(Unwrap(current)) \in GposKinds <=> is_gpos_rule(kind)]_vars

\* finish_current closed a contextual GPOS lookup with an anonymous lookup
\* while the GSUB vector held a lookup, and an earlier call had closed a GSUB
\* lookup
C37_Witness ==
    /\ op = "finish_current" /\ Running
    /\ IsSome(ret) /\ ret[1][1] = Gpos(0)
    /\ Len(gpos) = 2 /\ IsContextualVariant(gpos[1])
    /\ Len(gsub) >= 1

----------------------------------------------------------------------------
(* The lookup compiler: names across the aalt pass *)

\* the lookup an id designates in the vectors gp and gs, by its serial; None
\* for Empty and for an id past the end of its vector
Designated(id, gp, gs) ==
    IF IsGpos(id) THEN (IF id.idx < Len(gp) THEN Some(gp[id.idx + 1].serial) ELSE None)
    ELSE IF IsGsub(id) THEN (IF id.idx < Len(gs) THEN Some(gs[id.idx + 1].serial) ELSE None)
    ELSE None

\* C36: after insert_aalt_lookups prepends n lookups, every name that was
\* bound to Gsub(k) designates, through get_named, the same lookup as before
\* the pass, its binding being Gsub(k+n); names bound to Gpos ids or to Empty
\* are unchanged
C36_NamesFollowAalt ==
    [][op' = "insert_aalt_lookups" =>
        LET n == Len(ret')
        IN /\ DOMAIN named' = DOMAIN named
           /\ \A name \in DOMAIN named :
                LET before == named[name]
                    after == Unwrap(get_named(name)')
                IN IF IsGsub(before)
                   THEN /\ after = Gsub(before.idx + n)
                        /\ Designated(after, gpos', gsub') = Designated(before, gpos, gsub)
                   ELSE after = before]_vars

----------------------------------------------------------------------------
(* split_lookups: indices that do not fit in 16 bits *)

\* the slice holds a Gpos or Gsub id whose index is 65536 or more
HasWideIndex(ids) ==
    \E i \in DOMAIN ids : (IsGpos(ids[i]) \/ IsGsub(ids[i])) /\ ids[i].idx > U16_MAX

\* C35: an index of 65536 or more reaching split_lookups aborts the call; it
\* is never truncated or wrapped, so every index of the lists a returning call
\* produces is the index of the id it was made from, and fits in 16 bits
C35_NoWrap ==
    IsSome(split_out) =>
        LET out == Unwrap(split_out)
        IN /\ HasWideIndex(split_in) => ~out.ok
           /\ out.ok =>
                /\ out.gpos = IdxOf(SelectSeq(split_in, IsGpos))
                /\ out.gsub = IdxOf(SelectSeq(split_in, IsGsub))
                /\ \A i \in DOMAIN out.gpos : out.gpos[i] <= U16_MAX
                /\ \A i \in DOMAIN out.gsub : out.gsub[i] <= U16_MAX

\* a mixed slice whose GSUB index is 65536 ended in the panic of the
\* conversion
C35_Witness ==
    /\ split_in = <<Gpos(0), Gsub(U16_MAX + 1)>>
    /\ IsSome(split_out)
    /\ ~Unwrap(split_out).ok /\ Unwrap(split_out).msg = TryFromInt

\* a slice whose largest index is 65535 was split without change
C35_WitnessFits ==
    /\ split_in = <<Gsub(U16_MAX), Gpos(1)>>
    /\ IsSome(split_out) /\ Unwrap(split_out).ok
    /\ Unwrap(split_out).gsub = <<U16_MAX>>

----------------------------------------------------------------------------
(* The lookup compiler: subtables *)

\* the entrypoints that insert a rule into the current lookup
InsertsRule == op' \in RuleEntrypoints \cup {"add_contextual_rule"}

\* C32: the current lookup and every lookup of the GPOS and GSUB vectors, the
\* lookups prepended by the aalt pass included, has at least one subtable;
\* every rule-insertion entrypoint inserts into the last subtable only and
\* leaves the earlier subtables of the lookup as they were
C32_Subtables ==
    /\ [](/\ \A i \in DOMAIN gpos : Len(gpos[i].subtables) >= 1
          /\ \A i \in DOMAIN gsub : Len(gsub[i].subtables) >= 1
          /\ IsSome(current) => Len(Unwrap(current).lookup.subtables) >= 1)
    /\ [][(InsertsRule /\ panic' = "none") =>
            LET old == Unwrap(current).lookup.subtables
                new == Unwrap(current').lookup.subtables
            IN /\ IsSome(current) /\ IsSome(current')
               /\ Len(new) = Len(old)
               /\ \A i \in 1..(Len(old) - 1) : new[i] = old[i]
               /\ gpos' = gpos /\ gsub' = gsub]_vars

\* a rule went into the second subtable of the current lookup, whose first
\* subtable holds a rule, after an aalt pass had prepended a lookup
C32_Witness ==
    /\ op \in RuleEntrypoints /\ Running
    /\ IsSome(current)
    /\ Len(Unwrap(current).lookup.subtables) = 2
    /\ ~is_empty(Unwrap(current).lookup.subtables[1])
    /\ ~is_empty(Unwrap(current).lookup.subtables[2])
    /\ AaltLookups # <<>>

----------------------------------------------------------------------------
(* The inference of glyph classes *)

\* some subtable of a GPOS lookup of the variant holds g under a key (keyed)
\* or as the mark attached
InGpos(variant, keyed, g) ==
    \E i \in DOMAIN gpos :
        /\ gpos[i].variant = variant
        /\ \E s \in DOMAIN gpos[i].subtables :
              LET sub == gpos[i].subtables[s]
              IN IF keyed THEN g \in DOMAIN sub
                          ELSE \E k \in DOMAIN sub : sub[k] = g

\* C34: infer_glyph_classes reports (g, Base) for every base glyph and
\* (g, Mark) for every mark glyph of the mark-to-base lookups of the GPOS
\* vector, (g, Ligature) for every ligature glyph and (g, Mark) for every mark
\* glyph of its mark-to-ligature lookups, (g, Mark) for every glyph of both
\* mark sets of its mark-to-mark lookups, and nothing else: nothing for
\* another GPOS kind, nothing for a GSUB lookup; and it changes nothing of
\* the state
C34_InferredClasses ==
    /\ [](op = "infer_glyph_classes" =>
            /\ ret \subseteq Glyphs \X ClassIds
            /\ \A g \in Glyphs :
                /\ <<g, "Base">> \in ret <=> InGpos("MarkToBase", TRUE, g)
                /\ <<g, "Ligature">> \in ret <=> InGpos("MarkToLig", TRUE, g)
                /\ <<g, "Mark">> \in ret <=>
                        \/ InGpos("MarkToBase", FALSE, g)
                        \/ InGpos("MarkToLig", FALSE, g)
                        \/ InGpos("MarkToMark", TRUE, g)
                        \/ InGpos("MarkToMark", FALSE, g))
    /\ [][op' = "infer_glyph_classes" =>
            /\ current' = current /\ current_name' = current_name
            /\ gpos' = gpos /\ gsub' = gsub /\ named' = named]_vars

\* the inference ran over a GPOS vector that holds a mark-to-ligature lookup
\* of two subtables with a rule each and a single-adjustment lookup with a
\* rule, and reported the two ligature glyphs and the mark
C34_Witness ==
    /\ op = "infer_glyph_classes"
    /\ ret = {<<1, "Ligature">>, <<2, "Ligature">>, <<3, "Mark">>}
    /\ Len(gpos) = 2
    /\ gpos[1].variant = "Single" /\ ~is_empty(gpos[1].subtables[1])
    /\ gpos[2].variant = "MarkToLig" /\ Len(gpos[2].subtables) = 2
    /\ ~is_empty(gpos[2].subtables[1]) /\ ~is_empty(gpos[2].subtables[2])

\* the inference ran with a GSUB lookup holding a rule and reported only the
\* glyphs of the mark-to-mark lookup
C34_WitnessGsub ==
    /\ op = "infer_glyph_classes"
    /\ Len(gsub) = 1 /\ ~is_empty(gsub[1].subtables[1])
    /\ Len(gpos) = 1 /\ gpos[1].variant = "MarkToMark"
    /\ ret = {<<2, "Mark">>, <<3, "Mark">>}


============================================================================
